---- MODULE Spec2Model ----
(***************************************************************************)
(* Model of the missing-data-tool backend: the Feature record and the      *)
(* process-wide FEATURE_CACHE of backend/models/feature.py, the rule       *)
(* engine calculate_recommendation, the mechanism cache of                 *)
(* backend/routes/dashboard_routes.py, the dataset routes of               *)
(* backend/routes/validation_routes.py and the feature routes of           *)
(* backend/routes/features_routes.py (which carries its own Feature class  *)
(* and its own FEATURE_CACHE).                                             *)
(*                                                                         *)
(* Conventions.  Python None is the record None.  Strings that the code    *)
(* searches (the mechanism label) are tuples of one-character strings.     *)
(* Real numbers are integers in thousandths (0.7 is 700, p = 0.05 is 50).  *)
(* datetime.now() is the logical clock now + 1, read once per operation.   *)
(***************************************************************************)
EXTENDS Integers, Sequences, FiniteSets, TLC

VARIABLES
    df,                      \* request.app.state.df
    latest_uploaded_file,    \* request.app.state.latest_uploaded_file
    missing_data_mechanism,  \* request.app.state.missing_data_mechanism
    mechanism_df,            \* history: the df the cached verdict was computed from
    FEATURE_CACHE,           \* models/feature.py FEATURE_CACHE (insertion ordered)
    routes_FEATURE_CACHE,    \* routes/features_routes.py FEATURE_CACHE
    detached,                \* a Feature built by its constructor, in no cache
    now,                     \* logical clock behind datetime.now()
    requests,                \* the threads serving a request: the statement each is at
    last                     \* the operation that produced this state

vars == <<df, latest_uploaded_file, missing_data_mechanism, mechanism_df, FEATURE_CACHE,
          routes_FEATURE_CACHE, detached, now, requests, last>>

None == [none |-> TRUE]

\* ------------------------------------------------------------------ bounds
MaxNow == 4
\* threads serving requests at the same time
Threads == 2

\* the clock value up to which the handlers of features_routes.py are explored
MaxRouteNow == 2

\* ------------------------------------------------------- small value sets
DataTypeInputs == {"N", "C", "X"}

DefaultInformative == [is_informative |-> FALSE, p_value |-> 1000]

InformativeInputs ==
    { [is_informative |-> TRUE, p_value |-> 10],
      [is_informative |-> FALSE, p_value |-> 500] }

ThKeys == {"pearson_threshold", "cramer_v_threshold", "eta_squared_threshold"}

Thresholds(p, v, e) ==
    [k \in ThKeys |-> IF k = "pearson_threshold" THEN p
                      ELSE IF k = "cramer_v_threshold" THEN v ELSE e]

EmptyDict == [k \in {} |-> 0]

ThresholdInputs == { Thresholds(700, 700, 700), Thresholds(900, 700, 700) }

CorrEntry(partner, value, kind) ==
    [feature_name |-> partner, correlation_value |-> value, correlation_type |-> kind]

CorrelationInputs == { <<>>, <<CorrEntry("other", 800, "r")>> }

\* ------------------------------------------------------ the Feature class
Feature(name, data_type, number_missing, percentage_missing, original_dtype, t) ==
    [ name                      |-> name,
      data_type                 |-> data_type,
      number_missing            |-> number_missing,
      percentage_missing        |-> percentage_missing,
      original_dtype            |-> original_dtype,
      correlated_features       |-> <<>>,
      informative_missingness   |-> DefaultInformative,
      correlations_calculated   |-> FALSE,
      informative_calculated    |-> FALSE,
      last_thresholds           |-> EmptyDict,
      last_updated              |-> t,
      recommendation            |-> None,
      recommendation_calculated |-> FALSE ]

auto_detected_data_type(self) ==
    IF self.original_dtype \in {"int64", "float64"} THEN "N" ELSE "C"

is_data_type_manually_set(self) == self.data_type # auto_detected_data_type(self)

\* clear_correlations without the reset of _last_thresholds
clear_correlations_keeps_thresholds(self, t) ==
    [self EXCEPT !.correlated_features = <<>>,
                 !.correlations_calculated = FALSE,
                 !.recommendation = None,
                 !.recommendation_calculated = FALSE,
                 !.last_updated = t]

clear_correlations(self, t) ==
    [self EXCEPT !.correlated_features = <<>>,
                 !.correlations_calculated = FALSE,
                 !.last_thresholds = EmptyDict,
                 !.recommendation = None,
                 !.recommendation_calculated = FALSE,
                 !.last_updated = t]

\* set_correlated_features as in a revision that keeps the recommendation
set_correlated_features_keeping(self, correlations, t) ==
    [self EXCEPT !.correlated_features = correlations,
                 !.correlations_calculated = TRUE,
                 !.last_updated = t]

set_correlated_features(self, correlations, t) ==
    [self EXCEPT !.correlated_features = correlations,
                 !.correlations_calculated = TRUE,
                 !.recommendation = None,
                 !.recommendation_calculated = FALSE,
                 !.last_updated = t]

set_informative_missingness(self, informative_data, t) ==
    [self EXCEPT !.informative_missingness = informative_data,
                 !.informative_calculated = TRUE,
                 !.recommendation = None,
                 !.recommendation_calculated = FALSE,
                 !.last_updated = t]

set_recommendation(self, recommendation_data, t) ==
    [self EXCEPT !.recommendation = recommendation_data,
                 !.recommendation_calculated = TRUE,
                 !.last_updated = t]

set_correlated_features_with_thresholds(self, correlations, thresholds, t) ==
    [self EXCEPT !.correlated_features = correlations,
                 !.correlations_calculated = TRUE,
                 !.last_thresholds = thresholds,
                 !.recommendation = None,
                 !.recommendation_calculated = FALSE,
                 !.last_updated = t]

\* dict.get(key): the value, or None (here -1, no threshold is negative)
DictGet(d, k) == IF k \in DOMAIN d THEN d[k] ELSE -1

should_recalculate_correlations(self, new_thresholds) ==
    IF ~self.correlations_calculated THEN TRUE
    ELSE \E k \in DOMAIN new_thresholds :
            DictGet(self.last_thresholds, k) # new_thresholds[k]

\* a Feature that always asks for a new recommendation
needs_recommendation_recalculation_always(self) == TRUE

needs_recommendation_recalculation(self) == ~self.recommendation_calculated

\* A reference to a Feature object: 0 is the detached object, i >= 1 is the
\* i-th value of FEATURE_CACHE.
Deref(cache, det, ref) == IF ref = 0 THEN det ELSE cache[ref]

Store(cache, det, ref, rec) ==
    [ cache |-> IF ref = 0 THEN cache ELSE [cache EXCEPT ![ref] = rec],
      det   |-> IF ref = 0 THEN rec ELSE det ]

\* the setter, forgetting to reset the informative verdict itself
data_type_setter_keeps_verdict(cache, det, ref, value, t) ==
    IF value \notin {"N", "C"}
    THEN [raised |-> TRUE, cache |-> cache, det |-> det]
    ELSE IF Deref(cache, det, ref).data_type = value
    THEN [raised |-> FALSE, cache |-> cache, det |-> det]
    ELSE LET cleared == [i \in DOMAIN cache |-> clear_correlations(cache[i], t)]
             self    == Deref(cleared, det, ref)
             updated == [self EXCEPT !.data_type = value,
                                     !.informative_calculated = FALSE,
                                     !.recommendation = None,
                                     !.recommendation_calculated = FALSE,
                                     !.last_updated = t]
             st      == Store(cleared, det, ref, updated)
         IN  [raised |-> FALSE, cache |-> st.cache, det |-> st.det]

\* the setter, validating only after the cache has been invalidated
data_type_setter_validates_late(cache, det, ref, value, t) ==
    LET cleared == [i \in DOMAIN cache |-> clear_correlations(cache[i], t)]
    IN  IF value \notin {"N", "C"}
        THEN [raised |-> TRUE, cache |-> cleared, det |-> det]
        ELSE IF Deref(cache, det, ref).data_type = value
        THEN [raised |-> FALSE, cache |-> cache, det |-> det]
        ELSE LET self    == Deref(cleared, det, ref)
                 updated == [self EXCEPT !.data_type = value,
                                         !.informative_calculated = FALSE,
                                         !.informative_missingness = DefaultInformative,
                                         !.recommendation = None,
                                         !.recommendation_calculated = FALSE,
                                         !.last_updated = t]
                 st      == Store(cleared, det, ref, updated)
             IN  [raised |-> FALSE, cache |-> st.cache, det |-> st.det]

\* the setter without the "only if the value is changing" test of line 102
data_type_setter_always_updates(cache, det, ref, value, t) ==
    IF value \notin {"N", "C"}
    THEN [raised |-> TRUE, cache |-> cache, det |-> det]
    ELSE LET cleared == [i \in DOMAIN cache |-> clear_correlations(cache[i], t)]
             self    == Deref(cleared, det, ref)
             updated == [self EXCEPT !.data_type = value,
                                     !.informative_calculated = FALSE,
                                     !.informative_missingness = DefaultInformative,
                                     !.recommendation = None,
                                     !.recommendation_calculated = FALSE,
                                     !.last_updated = t]
             st      == Store(cleared, det, ref, updated)
         IN  [raised |-> FALSE, cache |-> st.cache, det |-> st.det]

\* the data_type setter; raised = TRUE is the ValueError of line 99
data_type_setter(cache, det, ref, value, t) ==
    IF value \notin {"N", "C"}
    THEN [raised |-> TRUE, cache |-> cache, det |-> det]
    ELSE IF Deref(cache, det, ref).data_type = value
    THEN [raised |-> FALSE, cache |-> cache, det |-> det]
    ELSE LET cleared == [i \in DOMAIN cache |-> clear_correlations(cache[i], t)]
             self    == Deref(cleared, det, ref)
             updated == [self EXCEPT !.data_type = value,
                                     !.informative_calculated = FALSE,
                                     !.informative_missingness = DefaultInformative,
                                     !.recommendation = None,
                                     !.recommendation_calculated = FALSE,
                                     !.last_updated = t]
             st      == Store(cleared, det, ref, updated)
         IN  [raised |-> FALSE, cache |-> st.cache, det |-> st.det]

\* the reset assigning _data_type without going through the setter
reset_to_auto_detected_type_direct(cache, det, ref, t) ==
    LET self == Deref(cache, det, ref)
        st   == Store(cache, det, ref,
                      [self EXCEPT !.data_type = auto_detected_data_type(self)])
    IN  [raised |-> FALSE, cache |-> st.cache, det |-> st.det]

reset_to_auto_detected_type(cache, det, ref, t) ==
    LET self == Deref(cache, det, ref)
    IN  IF self.data_type # auto_detected_data_type(self)
        THEN data_type_setter(cache, det, ref, auto_detected_data_type(self), t)
        ELSE [raised |-> FALSE, cache |-> cache, det |-> det]

\* ------------------------------------------------------------ text helpers
Chars_MCAR == <<"M", "C", "A", "R">>
Chars_MAR == <<"M", "A", "R">>
Chars_MNAR == <<"M", "N", "A", "R">>
Chars_MAR_or_MNAR == <<"M", "A", "R", " ", "o", "r", " ", "M", "N", "A", "R">>
Chars_unknown == <<"u", "n", "k", "n", "o", "w", "n">>
\* a truthy argument that is not a string (its .lower() raises AttributeError)
NonString == <<"<object>">>
\* dataset_mechanism = None
NoMechanism == <<"<None>">>

LowerChar(c) ==
    CASE c = "A" -> "a" [] c = "C" -> "c" [] c = "M" -> "m"
      [] c = "N" -> "n" [] c = "R" -> "r" [] OTHER -> c

\* str.lower()
Lower(s) == [i \in DOMAIN s |-> LowerChar(s[i])]

\* sub in s
Contains(sub, s) ==
    \E i \in 0..(Len(s) - Len(sub)) : SubSeq(s, i + 1, i + Len(sub)) = sub

\* bool(dataset_mechanism)
Truthy(m) == m # NoMechanism /\ m # <<>>

MechanismInputs ==
    {NoMechanism, Chars_MCAR, Chars_MAR_or_MNAR, Chars_MAR, Chars_MNAR,
     Chars_unknown, NonString}

\* ------------------------------------------------- recommendation rule engine
\* The argument of calculate_recommendation is any Python object.  A Feature
\* is the record built by Feature(...); other objects are records that lack
\* attributes or list, in "broken", attributes whose read raises an exception
\* other than AttributeError.
Broken(feature) == IF "broken" \in DOMAIN feature THEN feature.broken ELSE {}

CanRead(feature, attr) == attr \in DOMAIN feature /\ attr \notin Broken(feature)

\* an exception that leaves the function
Raised == [raised |-> TRUE]

\* The rule helpers return "T", "F" or "raise".
has_informative_missingness(feature) ==
    IF ~CanRead(feature, "informative_calculated") THEN "raise"
    ELSE IF ~feature.informative_calculated THEN "F"
    ELSE IF ~CanRead(feature, "informative_missingness") THEN "raise"
    ELSE IF feature.informative_missingness.is_informative THEN "T" ELSE "F"

is_strongly_correlated(feature) ==
    IF ~CanRead(feature, "correlations_calculated") THEN "raise"
    ELSE IF ~feature.correlations_calculated THEN "F"
    ELSE IF ~CanRead(feature, "correlated_features") THEN "raise"
    ELSE IF Len(feature.correlated_features) > 0 THEN "T" ELSE "F"

is_categorical_feature(feature) ==
    IF ~CanRead(feature, "data_type") THEN "raise"
    ELSE IF feature.data_type = "C" THEN "T" ELSE "F"

is_mar_or_mnar_mechanism(dataset_mechanism) ==
    IF ~Truthy(dataset_mechanism) THEN "F"
    ELSE IF dataset_mechanism = NonString THEN "raise"
    ELSE IF Contains(<<"m", "a", "r">>, Lower(dataset_mechanism))
            \/ Contains(<<"m", "n", "a", "r">>, Lower(dataset_mechanism))
         THEN "T" ELSE "F"

\* the rule-5 helper recognising no mechanism
is_mcar_mechanism_never(dataset_mechanism) == "F"

is_mcar_mechanism(dataset_mechanism) ==
    IF ~Truthy(dataset_mechanism) THEN "F"
    ELSE IF dataset_mechanism = NonString THEN "raise"
    ELSE IF Contains(<<"m", "c", "a", "r">>, Lower(dataset_mechanism))
         THEN "T" ELSE "F"

get_mechanism_explanation(dataset_mechanism) ==
    IF ~Truthy(dataset_mechanism) THEN ""
    ELSE LET mechanism_lower == Lower(dataset_mechanism)
         IN  IF Contains(<<"m", "c", "a", "r">>, mechanism_lower)
             THEN "(Missing Completely at Random)"
             ELSE IF Contains(<<"m", "a", "r">>, mechanism_lower)
                     /\ Contains(<<"m", "n", "a", "r">>, mechanism_lower)
             THEN "(Missing at Random or Missing Not at Random)"
             ELSE IF Contains(<<"m", "a", "r">>, mechanism_lower)
             THEN "(Missing at Random)"
             ELSE IF Contains(<<"m", "n", "a", "r">>, mechanism_lower)
             THEN "(Missing Not at Random)"
             ELSE ""

Type_MissingIndicator == "Missing-indicator method"
Type_RemoveFeatures == "Remove Features"
Type_UnknownCategory == "Create an 'unknown' category or consider adjusting the categories"
Type_MachineLearning == "Machine learning algorithms that can directly handle missing data or multiple imputation"
Type_AllValid == "All methods are valid: complete case analysis, machine learning algorithms that can directly handle missing data, multiple imputation, etc."

Recommendation(type, reason, rule) ==
    [recommendation_type |-> type, reason |-> reason, rule_applied |-> rule]

\* the fallback step (lines 846-871); None when the step itself raises
FallbackRecommendation(feature) ==
    IF "data_type" \in Broken(feature) THEN None
    ELSE Recommendation(Type_MachineLearning,
            IF "data_type" \in DOMAIN feature
            THEN IF feature.data_type = "C" THEN <<"fallback", "categorical">>
                 ELSE IF feature.data_type = "N" THEN <<"fallback", "numerical">>
                 ELSE <<"fallback", "safe default">>
            ELSE <<"fallback", "safe default, systematic patterns">>,
            4)

\* the engine with the categorical rule tried before the correlation rule
calculate_recommendation_swapped(feature, dataset_mechanism) ==
    IF feature = None \/ "name" \notin DOMAIN feature THEN None
    ELSE IF "name" \in Broken(feature) THEN Raised
    ELSE IF has_informative_missingness(feature) = "T"
    THEN Recommendation(Type_MissingIndicator, <<"informative missingness", "">>, 1)
    ELSE IF is_categorical_feature(feature) = "T"
    THEN Recommendation(Type_UnknownCategory, <<"unknown category", "">>, 3)
    ELSE IF is_strongly_correlated(feature) = "T"
    THEN Recommendation(Type_RemoveFeatures, <<"strongly correlated", "">>, 2)
    ELSE IF is_mar_or_mnar_mechanism(dataset_mechanism) = "T"
    THEN Recommendation(Type_MachineLearning,
            <<"imputing will introduce bias", get_mechanism_explanation(dataset_mechanism)>>, 4)
    ELSE IF is_mcar_mechanism(dataset_mechanism) = "T"
    THEN Recommendation(Type_AllValid,
            <<"all methods are valid", get_mechanism_explanation(dataset_mechanism)>>, 5)
    ELSE FallbackRecommendation(feature)

\* calculate_recommendation: hasattr(feature, 'name') lets an exception other
\* than AttributeError through to the handler of line 873, whose message reads
\* feature.name again, so that exception leaves the function
calculate_recommendation(feature, dataset_mechanism) ==
    IF feature = None \/ "name" \notin DOMAIN feature THEN None
    ELSE IF "name" \in Broken(feature) THEN Raised
    ELSE IF has_informative_missingness(feature) = "T"
    THEN Recommendation(Type_MissingIndicator, <<"informative missingness", "">>, 1)
    ELSE IF is_strongly_correlated(feature) = "T"
    THEN Recommendation(Type_RemoveFeatures, <<"strongly correlated", "">>, 2)
    ELSE IF is_categorical_feature(feature) = "T"
    THEN Recommendation(Type_UnknownCategory, <<"unknown category", "">>, 3)
    ELSE IF is_mar_or_mnar_mechanism(dataset_mechanism) = "T"
    THEN Recommendation(Type_MachineLearning,
            <<"imputing will introduce bias", get_mechanism_explanation(dataset_mechanism)>>, 4)
    ELSE IF is_mcar_mechanism(dataset_mechanism) = "T"
    THEN Recommendation(Type_AllValid,
            <<"all methods are valid", get_mechanism_explanation(dataset_mechanism)>>, 5)
    ELSE FallbackRecommendation(feature)

\* the function with a failed engine call leaving the record as it was
calculate_and_set_recommendation_unhandled(self, engine, dataset_mechanism, t) ==
    LET recommendation_result ==
            IF engine = "calculate_recommendation"
            THEN calculate_recommendation(self, dataset_mechanism)
            ELSE IF engine = "return None" THEN None ELSE Raised
    IN  IF recommendation_result = Raised \/ recommendation_result = None
        THEN self
        ELSE set_recommendation(self, recommendation_result, t)

\* calculate_and_set_recommendation calls the function the module global
\* calculate_recommendation is bound to: the rule engine, or the stub a test
\* patches in its place, which returns None or raises
calculate_and_set_recommendation(self, engine, dataset_mechanism, t) ==
    LET recommendation_result ==
            IF engine = "calculate_recommendation"
            THEN calculate_recommendation(self, dataset_mechanism)
            ELSE IF engine = "return None" THEN None ELSE Raised
    IN  IF recommendation_result = Raised
        THEN set_recommendation(self,
                [recommendation_type |-> Type_MachineLearning,
                 reason |-> <<"error occurred", "">>,
                 rule_applied |-> 4,
                 calculation_error |-> TRUE,
                 error_message |-> "str(e)"], t)
        ELSE IF recommendation_result # None
        THEN set_recommendation(self, recommendation_result, t)
        ELSE set_recommendation(self,
                [recommendation_type |-> Type_MachineLearning,
                 reason |-> <<"unable to determine", "">>,
                 rule_applied |-> 4,
                 calculation_failed |-> TRUE], t)

\* ------------------------------------------------------------- datasets
\* A DataFrame is abstracted to what the code reads of it: the number of
\* rows, and per column its name, its pandas dtype, the number of null
\* cells, the number of cells holding the token "N/A", the number of cells
\* holding the sentinel -999, and whether reading its statistics raises
\* (bad).  assoc gives, per pair {i, j} of column positions, the number n of
\* rows non-null in both columns and the values the three statistical tests
\* return for the pair, in ten-thousandths (NaN when not a number), and
\* whether the grouping is degenerate (fewer than 2 groups or categories).
Column(name, dtype, missing, na, sentinel, bad) ==
    [name |-> name, dtype |-> dtype, missing |-> missing, na |-> na,
     sentinel |-> sentinel, bad |-> bad]

NaN == 99999

Assoc(n, r, eta, v, degenerate) ==
    [n |-> n, r |-> r, eta |-> eta, v |-> v, degenerate |-> degenerate]

NoAssoc == [p \in {} |-> 0]

DataFrame(rows, columns, assoc) ==
    [rows |-> rows, columns |-> columns, assoc |-> assoc]

\* df.empty
Empty(d) == d.rows = 0 \/ Len(d.columns) = 0

ColumnNames(d) == {d.columns[i].name : i \in DOMAIN d.columns}

\* df.isnull().any().any()
AnyNull(d) == \E i \in DOMAIN d.columns : d.columns[i].missing > 0

\* round(x, 2) of x = 100 * num / den, in hundredths, ties to even
RoundHalfEven(num, den) ==
    LET q == num \div den
        r == num % den
    IN  IF 2 * r < den THEN q
        ELSE IF 2 * r > den THEN q + 1
        ELSE IF q % 2 = 0 THEN q ELSE q + 1

\* the percentage cut after two decimals
PercentageMissing_truncated(number_missing, total_rows) ==
    (number_missing * 10000) \div total_rows

\* round((number_missing / total_rows) * 100, 2), in hundredths of a percent
PercentageMissing(number_missing, total_rows) ==
    RoundHalfEven(number_missing * 10000, total_rows)

\* ------------------------------------------- FEATURE_CACHE (models/feature.py)
\* The dict is the sequence of its values in insertion order; the key of a
\* value is its name.
CacheIndex(cache, key) ==
    IF \E i \in DOMAIN cache : cache[i].name = key
    THEN CHOOSE i \in DOMAIN cache : cache[i].name = key
    ELSE 0

\* FEATURE_CACHE[column] = feature
CachePut(cache, feature) ==
    IF CacheIndex(cache, feature.name) # 0
    THEN [cache EXCEPT ![CacheIndex(cache, feature.name)] = feature]
    ELSE Append(cache, feature)

\* the per-column body of initialize_feature_cache (lines 285-341): the cache
\* after the columns 1..k and the number of columns skipped
RECURSIVE InitColumns(_, _, _)
InitColumns(d, k, t) ==
    IF k = 0 THEN [cache |-> <<>>, features_added |-> 0, features_skipped |-> 0]
    ELSE LET prev   == InitColumns(d, k - 1, t)
             column == d.columns[k]
         IN  IF column.name = "" \/ column.bad \/ d.rows = 0
             THEN [prev EXCEPT !.features_skipped = @ + 1]
             ELSE [cache |-> CachePut(prev.cache,
                        Feature(column.name,
                                IF column.dtype \in {"int64", "float64", "int32", "float32"}
                                THEN "N" ELSE "C",
                                column.missing,
                                PercentageMissing(column.missing, d.rows),
                                column.dtype, t)),
                   features_added |-> prev.features_added + 1,
                   features_skipped |-> prev.features_skipped]

\* initialize_feature_cache, validating before clearing and never clearing on failure
initialize_feature_cache_keeps(cache, d, t) ==
    IF d = None \/ Empty(d)
    THEN [raised |-> TRUE, cache |-> cache]
    ELSE LET done == InitColumns(d, Len(d.columns), t)
         IN  IF done.features_added = 0 /\ done.features_skipped > 0
             THEN [raised |-> TRUE, cache |-> cache]
             ELSE [raised |-> FALSE, cache |-> done.cache]

\* initialize_feature_cache(df): the new cache and whether ValueError is raised
initialize_feature_cache(cache, d, t) ==
    IF d = None \/ Empty(d)
    THEN [raised |-> TRUE, cache |-> <<>>]
    ELSE LET done == InitColumns(d, Len(d.columns), t)
         IN  IF done.features_added = 0 /\ done.features_skipped > 0
             THEN [raised |-> TRUE, cache |-> <<>>]
             ELSE [raised |-> FALSE, cache |-> done.cache]

\* an insertion that puts a Feature before those of equal percentage_missing
RECURSIVE InsertSorted_before_equals(_, _)
InsertSorted_before_equals(sorted, f) ==
    IF sorted = <<>> THEN <<f>>
    ELSE IF Head(sorted).percentage_missing > f.percentage_missing
    THEN <<Head(sorted)>> \o InsertSorted_before_equals(Tail(sorted), f)
    ELSE <<f>> \o sorted

\* get_all_features_from_cache: stable sort by percentage_missing, descending
RECURSIVE InsertSorted(_, _)
InsertSorted(sorted, f) ==
    IF sorted = <<>> THEN <<f>>
    ELSE IF Head(sorted).percentage_missing >= f.percentage_missing
    THEN <<Head(sorted)>> \o InsertSorted(Tail(sorted), f)
    ELSE <<f>> \o sorted

RECURSIVE SortFeatures(_)
SortFeatures(features) ==
    IF features = <<>> THEN <<>>
    ELSE InsertSorted(SortFeatures(SubSeq(features, 1, Len(features) - 1)),
                      features[Len(features)])

get_all_features_from_cache(cache) == SortFeatures(cache)

\* ------------------------------------------------- inputs of the direct API
\* datasets handed to initialize_feature_cache by a direct caller
RebuildInputs ==
    { None,
      \* two columns, both processed
      DataFrame(10, <<Column("x", "float64", 3, 0, 0, FALSE),
                      Column("y", "object", 0, 0, 0, FALSE)>>,
                {1, 2} :> Assoc(7, 0, 8000, 0, FALSE)),
      \* one column fails, one is processed
      DataFrame(12, <<Column("x", "int64", 1, 0, 0, TRUE),
                      Column("y", "object", 2, 0, 0, FALSE)>>,
                {1, 2} :> Assoc(8, 0, 0, 0, FALSE)),
      \* every column fails
      DataFrame(10, <<Column("x", "float64", 3, 0, 0, TRUE)>>, NoAssoc),
      \* two numeric columns, both with missing cells, strongly correlated
      DataFrame(14, <<Column("x", "float64", 2, 0, 0, FALSE),
                      Column("y", "float64", 1, 0, 0, FALSE)>>,
                {1, 2} :> Assoc(11, 9000, 0, 0, FALSE)),
      \* a 32-bit column
      DataFrame(10, <<Column("z", "int32", 1, 0, 0, FALSE)>>, NoAssoc),
      \* the only column has an empty name
      DataFrame(10, <<Column("", "object", 1, 0, 0, FALSE)>>, NoAssoc),
      \* no rows
      DataFrame(0, <<Column("x", "float64", 0, 0, 0, FALSE)>>, NoAssoc),
      \* no columns
      DataFrame(0, <<>>, NoAssoc) }

\* objects other than a Feature handed to calculate_recommendation
ObjectInputs ==
    { None,
      \* an object with a name only
      [name |-> "stub"],
      \* reading name raises
      [name |-> "stub", broken |-> {"name"}],
      \* reading data_type raises
      [name |-> "stub", data_type |-> "N", broken |-> {"data_type"}],
      \* an object without a name
      [data_type |-> "N"] }

\* the live Feature objects: 0 is the detached one
Refs == (IF detached = None THEN {} ELSE {0}) \cup DOMAIN FEATURE_CACHE

Self(ref) == Deref(FEATURE_CACHE, detached, ref)

AppUnchanged == UNCHANGED <<df, latest_uploaded_file, missing_data_mechanism,
                            mechanism_df, routes_FEATURE_CACHE, requests>>

\* ------------------------------------------------------------------ Init
Init ==
    /\ df = None
    /\ latest_uploaded_file = None
    /\ missing_data_mechanism = None
    /\ mechanism_df = None
    /\ FEATURE_CACHE = <<>>
    /\ routes_FEATURE_CACHE = <<>>
    /\ detached = None
    /\ now = 0
    /\ requests = <<>>
    /\ last = [op |-> "init"]

\* --------------------------------------- operations of models/feature.py
\* Feature(name, data_type, number_missing, percentage_missing, original_dtype)
NewFeature ==
    /\ now < MaxNow
    /\ \E data_type \in {"N", "C"}, original_dtype \in {"float64", "object"} :
          /\ detached' = Feature("other", data_type, 1, 1000, original_dtype, now + 1)
          /\ last' = [op |-> "Feature"]
    /\ now' = now + 1
    /\ UNCHANGED FEATURE_CACHE
    /\ AppUnchanged

\* initialize_feature_cache(df) called with a dataset of the caller's
InitializeFeatureCache ==
    /\ now < MaxNow
    /\ \E d \in RebuildInputs :
          LET res == initialize_feature_cache(FEATURE_CACHE, d, now + 1)
          IN  /\ FEATURE_CACHE' = res.cache
              /\ last' = [op |-> "initialize_feature_cache", d |-> d,
                          raised |-> res.raised, size_before |-> Len(FEATURE_CACHE)]
    /\ now' = now + 1
    /\ UNCHANGED detached
    /\ AppUnchanged

\* feature.data_type = value
SetDataType ==
    /\ now < MaxNow
    /\ \E ref \in Refs, value \in DataTypeInputs :
          LET res == data_type_setter(FEATURE_CACHE, detached, ref, value, now + 1)
          IN  /\ FEATURE_CACHE' = res.cache
              /\ detached' = res.det
              /\ last' = [op |-> "data_type", ref |-> ref, value |-> value,
                          raised |-> res.raised,
                          changed |-> (~res.raised /\ Self(ref).data_type # value)]
              /\ now' = IF ~res.raised /\ Self(ref).data_type # value THEN now + 1 ELSE now
    /\ AppUnchanged

\* an operation that replaces the object ref by rec
Replace(ref, rec, op) ==
    /\ FEATURE_CACHE' = Store(FEATURE_CACHE, detached, ref, rec).cache
    /\ detached' = Store(FEATURE_CACHE, detached, ref, rec).det
    /\ last' = [op |-> op, ref |-> ref,
                had_recommendation |-> (Self(ref).recommendation # None)]
    /\ now' = now + 1
    /\ AppUnchanged

SetCorrelatedFeatures ==
    /\ now < MaxNow
    /\ \E ref \in Refs, correlations \in CorrelationInputs :
          Replace(ref, set_correlated_features(Self(ref), correlations, now + 1),
                  "set_correlated_features")

SetCorrelatedFeaturesWithThresholds ==
    /\ now < MaxNow
    /\ \E ref \in Refs, correlations \in CorrelationInputs, thresholds \in ThresholdInputs :
          Replace(ref, set_correlated_features_with_thresholds(
                           Self(ref), correlations, thresholds, now + 1),
                  "set_correlated_features_with_thresholds")

ClearCorrelations ==
    /\ now < MaxNow
    /\ \E ref \in Refs :
          Replace(ref, clear_correlations(Self(ref), now + 1), "clear_correlations")

SetInformativeMissingness ==
    /\ now < MaxNow
    /\ \E ref \in Refs, informative_data \in InformativeInputs :
          Replace(ref, set_informative_missingness(Self(ref), informative_data, now + 1),
                  "set_informative_missingness")

CalculateAndSetRecommendation ==
    /\ now < MaxNow
    /\ \E ref \in Refs, dataset_mechanism \in MechanismInputs,
          engine \in {"calculate_recommendation", "return None", "raise"} :
          LET rec == calculate_and_set_recommendation(
                         Self(ref), engine, dataset_mechanism, now + 1)
          IN  /\ FEATURE_CACHE' = Store(FEATURE_CACHE, detached, ref, rec).cache
              /\ detached' = Store(FEATURE_CACHE, detached, ref, rec).det
              /\ last' = [op |-> "calculate_and_set_recommendation", ref |-> ref,
                          had_recommendation |-> (Self(ref).recommendation # None),
                          engine |-> engine, dataset_mechanism |-> dataset_mechanism,
                          before |-> Self(ref)]
    /\ now' = now + 1
    /\ AppUnchanged

ResetToAutoDetectedType ==
    /\ now < MaxNow
    /\ \E ref \in Refs :
          LET res == reset_to_auto_detected_type(FEATURE_CACHE, detached, ref, now + 1)
          IN  /\ FEATURE_CACHE' = res.cache
              /\ detached' = res.det
              /\ last' = [op |-> "reset_to_auto_detected_type", ref |-> ref,
                          changed |-> is_data_type_manually_set(Self(ref))]
              /\ now' = IF is_data_type_manually_set(Self(ref)) THEN now + 1 ELSE now
    /\ AppUnchanged

Next ==
    \/ NewFeature
    \/ InitializeFeatureCache
    \/ SetDataType
    \/ SetCorrelatedFeatures
    \/ SetCorrelatedFeaturesWithThresholds
    \/ ClearCorrelations
    \/ SetInformativeMissingness
    \/ CalculateAndSetRecommendation
    \/ ResetToAutoDetectedType

Spec == Init /\ [][Next]_vars

\* ------------------------------------------- the rule engine as a function
\* The states a Feature reaches through its constructor and its setters.
FeatureStates ==
    { LET g == IF with_informative
               THEN set_informative_missingness(f, informative_data, 2) ELSE f
      IN  IF with_correlations THEN set_correlated_features(g, correlations, 3) ELSE g :
        f \in {Feature("x", data_type, 3, 3000, "float64", 1) : data_type \in {"N", "C"}},
        with_informative \in BOOLEAN, informative_data \in InformativeInputs,
        with_correlations \in BOOLEAN, correlations \in CorrelationInputs }

EngineInit ==
    /\ df = None
    /\ latest_uploaded_file = None
    /\ missing_data_mechanism = None
    /\ mechanism_df = None
    /\ FEATURE_CACHE \in {<<>>, <<Feature("y", "C", 2, 2000, "object", 1)>>}
    /\ routes_FEATURE_CACHE = <<>>
    /\ detached \in FeatureStates
    /\ now = 3
    /\ requests = <<>>
    /\ last = [op |-> "init"]

\* the recommendation stored on the Feature by the call
CalculateRecommendation_storing ==
    /\ \E dataset_mechanism \in MechanismInputs :
          /\ last' = [op |-> "calculate_recommendation", feature |-> detached,
                      dataset_mechanism |-> dataset_mechanism,
                      result |-> calculate_recommendation(detached, dataset_mechanism)]
          /\ detached' = set_recommendation(
                             detached, calculate_recommendation(detached, dataset_mechanism), now)
    /\ UNCHANGED <<FEATURE_CACHE, now>>
    /\ AppUnchanged

\* calculate_recommendation(feature, dataset_mechanism): a pure call
CalculateRecommendation ==
    /\ \E feature \in {detached} \cup {FEATURE_CACHE[i] : i \in DOMAIN FEATURE_CACHE}
                       \cup ObjectInputs,
          dataset_mechanism \in MechanismInputs :
          last' = [op |-> "calculate_recommendation", feature |-> feature,
                   dataset_mechanism |-> dataset_mechanism,
                   result |-> calculate_recommendation(feature, dataset_mechanism)]
    /\ UNCHANGED <<FEATURE_CACHE, detached, now>>
    /\ AppUnchanged

EngineNext == CalculateRecommendation

EngineSpec == EngineInit /\ [][EngineNext]_vars

\* ------------------------------------------------ association tests
Abs(x) == IF x < 0 THEN -x ELSE x

\* round(value, 3), from ten-thousandths to thousandths
Round3(x) == IF x >= 0 THEN RoundHalfEven(x, 10) ELSE -RoundHalfEven(-x, 10)

ColumnIndex(d, name) ==
    IF \E i \in DOMAIN d.columns : d.columns[i].name = name
    THEN CHOOSE i \in DOMAIN d.columns : d.columns[i].name = name
    ELSE 0

\* calculate_eta: the value, or NaN for (None, None) and for not-a-number
calculate_eta(a) ==
    IF a.n < 10 THEN NaN
    ELSE IF a.degenerate THEN NaN
    ELSE a.eta

\* the body of the loop of calculate_feature_correlations_with_thresholds for
\* the feature at position i and the column at position j: the entries it
\* appends; types gives the type used for the dispatch, per column position
PairEntries(d, i, j, types, pearson_threshold, cramer_v_threshold, eta_threshold) ==
    LET a   == d.assoc[{i, j}]
        col == d.columns[j].name
    IN  IF d.columns[i].missing = d.rows \/ d.columns[j].missing = d.rows THEN <<>>
        ELSE IF types[i] = "N" /\ types[j] = "N"
        THEN IF a.n > 10 /\ a.r # NaN /\ Abs(a.r) >= 10 * pearson_threshold
             THEN <<CorrEntry(col, Round3(a.r), "r")>> ELSE <<>>
        ELSE IF types[i] = "N" \/ types[j] = "N"
        THEN IF calculate_eta(a) # NaN /\ calculate_eta(a) >= 10 * eta_threshold
             THEN <<CorrEntry(col, Round3(calculate_eta(a)), "eta")>> ELSE <<>>   \* the type is the letter eta
        ELSE IF a.n > 10 /\ ~a.degenerate /\ a.v # NaN /\ a.v >= 10 * cramer_v_threshold
             THEN <<CorrEntry(col, Round3(a.v), "V")>> ELSE <<>>

RECURSIVE CollectEntries(_, _, _, _, _, _, _)
CollectEntries(d, i, k, types, pearson_threshold, cramer_v_threshold, eta_threshold) ==
    IF k = 0 THEN <<>>
    ELSE CollectEntries(d, i, k - 1, types, pearson_threshold, cramer_v_threshold, eta_threshold)
         \o (IF k = i THEN <<>>
             ELSE PairEntries(d, i, k, types, pearson_threshold, cramer_v_threshold, eta_threshold))

\* correlations.sort(key=lambda x: abs(x["correlation_value"]), reverse=True)
RECURSIVE InsertByValue(_, _)
InsertByValue(sorted, e) ==
    IF sorted = <<>> THEN <<e>>
    ELSE IF Abs(Head(sorted).correlation_value) >= Abs(e.correlation_value)
    THEN <<Head(sorted)>> \o InsertByValue(Tail(sorted), e)
    ELSE <<e>> \o sorted

RECURSIVE SortByValue(_)
SortByValue(entries) ==
    IF entries = <<>> THEN <<>>
    ELSE InsertByValue(SortByValue(SubSeq(entries, 1, Len(entries) - 1)),
                       entries[Len(entries)])

\* --------------- models/feature.py: calculate_feature_correlations_with_thresholds
\* Thresholds of this function are in ten-thousandths, like the statistics;
\* the reported values are in thousandths (round(value, 3)).

\* FEATURE_CACHE.get(name, type('obj', (object,), {'data_type': 'C'})).data_type
CachedDataType(cache, name) ==
    IF CacheIndex(cache, name) = 0 THEN "C" ELSE cache[CacheIndex(cache, name)].data_type

\* the columns scipy can compute with; a column of dtype object holds strings
IsNumeric(column) == column.dtype \in {"int64", "float64", "int32", "float32"}

\* df[name].isnull().all()
AllNull(d, i) == d.columns[i].missing = d.rows

\* the branch of the loop taken for the feature at position i and the column
\* at position j, chosen by the column's dtype instead of the cached record
PairKind_by_dtype(cache, d, i, j) ==
    IF IsNumeric(d.columns[i]) /\ IsNumeric(d.columns[j]) THEN "r"
    ELSE IF IsNumeric(d.columns[i]) \/ IsNumeric(d.columns[j]) THEN "eta"
    ELSE "V"

\* the branch of the loop taken for the feature at position i and the column
\* at position j: "r", "eta" (the letter eta) or "V"
PairKind(cache, d, i, j) ==
    LET feature_type == CachedDataType(cache, d.columns[i].name)
        col_type     == CachedDataType(cache, d.columns[j].name)
    IN  IF feature_type = "N" /\ col_type = "N" THEN "r"
        ELSE IF feature_type = "N" \/ col_type = "N" THEN "eta"
        ELSE "V"

\* numerical_col = df[feature_name] if feature_type == 'N' else df[col]
NumericalPosition(cache, d, i, j) ==
    IF CachedDataType(cache, d.columns[i].name) = "N" THEN i ELSE j

\* stats.pearsonr raises on a column of strings, and the exception leaves the
\* loop for the handler of line 481
PearsonRaises(cache, d, i, j) ==
    /\ ~AllNull(d, i) /\ ~AllNull(d, j)
    /\ PairKind(cache, d, i, j) = "r"
    /\ d.assoc[{i, j}].n > 10
    /\ (~IsNumeric(d.columns[i]) \/ ~IsNumeric(d.columns[j]))

\* calculate_eta(categorical_col, numerical_col) of the pair: f_oneway raises
\* on strings inside calculate_eta, which answers (None, None)
EtaOfPair(cache, d, i, j) ==
    IF IsNumeric(d.columns[NumericalPosition(cache, d, i, j)])
    THEN calculate_eta(d.assoc[{i, j}]) ELSE NaN

\* the entries one iteration of the loop appends (lines 413-471)
FeaturePairEntries(cache, d, i, j, pearson_threshold, cramer_v_threshold, eta_threshold) ==
    LET a    == d.assoc[{i, j}]
        col  == d.columns[j].name
        kind == PairKind(cache, d, i, j)
        eta  == EtaOfPair(cache, d, i, j)
    IN  IF AllNull(d, i) \/ AllNull(d, j) THEN <<>>
        ELSE IF kind = "r"
        THEN IF a.n > 10 /\ a.r # NaN /\ Abs(a.r) >= pearson_threshold
             THEN <<CorrEntry(col, Round3(a.r), "r")>> ELSE <<>>
        ELSE IF kind = "eta"
        THEN IF eta # NaN /\ eta >= eta_threshold
             THEN <<CorrEntry(col, Round3(eta), "eta")>> ELSE <<>>
        ELSE IF a.n > 10 /\ ~a.degenerate /\ a.v # NaN /\ a.v >= cramer_v_threshold
             THEN <<CorrEntry(col, Round3(a.v), "V")>> ELSE <<>>

RECURSIVE FeatureCollectEntries(_, _, _, _, _, _, _)
FeatureCollectEntries(cache, d, i, k, pearson_threshold, cramer_v_threshold, eta_threshold) ==
    IF k = 0 THEN <<>>
    ELSE FeatureCollectEntries(cache, d, i, k - 1, pearson_threshold, cramer_v_threshold, eta_threshold)
         \o (IF k = i THEN <<>>
             ELSE FeaturePairEntries(cache, d, i, k, pearson_threshold, cramer_v_threshold, eta_threshold))

\* calculate_feature_correlations_with_thresholds(df, feature_name, ...) of
\* models/feature.py; every exception is answered with [] (lines 481-483),
\* among them the AttributeError of FEATURE_CACHE.get(feature_name, {}).data_type
\* in the message of line 475 when the feature has no record
calculate_feature_correlations_with_thresholds(cache, d, feature_name, pearson_threshold, cramer_v_threshold, eta_threshold) ==
    LET i == ColumnIndex(d, feature_name)
    IN  IF i = 0 THEN <<>>
        ELSE IF \E j \in DOMAIN d.columns : j # i /\ PearsonRaises(cache, d, i, j) THEN <<>>
        ELSE IF CacheIndex(cache, feature_name) = 0 THEN <<>>
        ELSE SortByValue(FeatureCollectEntries(cache, d, i, Len(d.columns),
                            pearson_threshold, cramer_v_threshold, eta_threshold))

\* datasets handed to the function: columns x, y and, in three of them, z
CorrelationFrames ==
    { \* two numeric columns and a string column; x and z share exactly 10 rows
      DataFrame(12, <<Column("x", "float64", 1, 0, 0, FALSE),
                      Column("y", "float64", 1, 0, 0, FALSE),
                      Column("z", "object", 1, 0, 0, FALSE)>>,
                ({1, 2} :> Assoc(11, -9996, 7004, 7004, FALSE))
                @@ ({1, 3} :> Assoc(10, 0, 8004, 9000, FALSE))
                @@ ({2, 3} :> Assoc(11, 0, 7500, 7200, FALSE))),
      \* two string columns and a numeric column
      DataFrame(12, <<Column("x", "object", 0, 0, 0, FALSE),
                      Column("y", "object", 1, 0, 0, FALSE),
                      Column("z", "float64", 1, 0, 0, FALSE)>>,
                ({1, 2} :> Assoc(11, 0, 0, 9500, FALSE))
                @@ ({1, 3} :> Assoc(11, 0, 9000, 7004, FALSE))
                @@ ({2, 3} :> Assoc(10, 0, 7200, 8000, FALSE))),
      \* two numeric columns, both with missing cells
      DataFrame(14, <<Column("x", "float64", 2, 0, 0, FALSE),
                      Column("y", "float64", 1, 0, 0, FALSE)>>,
                {1, 2} :> Assoc(11, 9000, 0, 0, FALSE)),
      \* x is missing in every row
      DataFrame(12, <<Column("x", "float64", 12, 0, 0, FALSE),
                      Column("y", "float64", 0, 0, 0, FALSE),
                      Column("z", "float64", 3, 0, 0, FALSE)>>,
                ({1, 2} :> Assoc(0, NaN, NaN, NaN, TRUE))
                @@ ({1, 3} :> Assoc(0, NaN, NaN, NaN, TRUE))
                @@ ({2, 3} :> Assoc(9, 9900, 9900, 9900, FALSE))) }

CorrelationFeatureNames == {"x", "y", "z", "nonexistent"}

\* thresholds in ten-thousandths: 0.5, 0.7 (the default) and 0.7004
FineThresholdInputs == {<<5000, 5000, 5000>>, <<7000, 7000, 7000>>, <<7004, 7004, 7004>>}

\* calculate_feature_correlations_with_thresholds(df, feature_name, ...): a
\* call that reads FEATURE_CACHE and changes nothing
CalculateFeatureCorrelationsWithThresholds ==
    /\ \E d \in CorrelationFrames, feature_name \in CorrelationFeatureNames,
          th \in FineThresholdInputs :
          last' = [op |-> "calculate_feature_correlations_with_thresholds",
                   d |-> d, feature_name |-> feature_name,
                   pearson_threshold |-> th[1], cramer_v_threshold |-> th[2],
                   eta_threshold |-> th[3],
                   result |-> calculate_feature_correlations_with_thresholds(
                                  FEATURE_CACHE, d, feature_name, th[1], th[2], th[3])]
    /\ UNCHANGED <<FEATURE_CACHE, detached, now>>
    /\ AppUnchanged

CorrelationNext ==
    \/ InitializeFeatureCache
    \/ SetDataType
    \/ CalculateFeatureCorrelationsWithThresholds

CorrelationSpec == Init /\ [][CorrelationNext]_vars

\* ------------------------------- routes/features_routes.py: Feature, cache
routes_Feature(name, data_type, number_missing, percentage_missing, original_dtype, t) ==
    [ name                    |-> name,
      data_type               |-> data_type,
      number_missing          |-> number_missing,
      percentage_missing      |-> percentage_missing,
      original_dtype          |-> original_dtype,
      correlated_features     |-> <<>>,
      informative_missingness |-> DefaultInformative,
      correlations_calculated |-> FALSE,
      informative_calculated  |-> FALSE,
      last_thresholds         |-> EmptyDict,
      last_updated            |-> t ]

routes_clear_correlations(self, t) ==
    [self EXCEPT !.correlated_features = <<>>,
                 !.correlations_calculated = FALSE,
                 !.last_thresholds = EmptyDict,
                 !.last_updated = t]

routes_set_informative_missingness(self, informative_data, t) ==
    [self EXCEPT !.informative_missingness = informative_data,
                 !.informative_calculated = TRUE,
                 !.last_updated = t]

routes_set_correlated_features_with_thresholds(self, correlations, thresholds, t) ==
    [self EXCEPT !.correlated_features = correlations,
                 !.correlations_calculated = TRUE,
                 !.last_thresholds = thresholds,
                 !.last_updated = t]

\* the gate, looking at the computed flag only
routes_should_recalculate_correlations_flag_only(self, new_thresholds) ==
    ~self.correlations_calculated

routes_should_recalculate_correlations(self, new_thresholds) ==
    IF ~self.correlations_calculated THEN TRUE
    ELSE \E k \in DOMAIN new_thresholds :
            DictGet(self.last_thresholds, k) # new_thresholds[k]

\* the data_type setter of features_routes.py; raised is the ValueError
routes_data_type_setter(self, value, t) ==
    IF value \notin {"N", "C"} THEN [raised |-> TRUE, self |-> self]
    ELSE IF self.data_type = value THEN [raised |-> FALSE, self |-> self]
    ELSE [raised |-> FALSE,
          self |-> [routes_clear_correlations(self, t)
                       EXCEPT !.data_type = value,
                              !.informative_calculated = FALSE,
                              !.informative_missingness = DefaultInformative,
                              !.last_updated = t]]

routes_reset_to_auto_detected_type(self, t) ==
    IF self.data_type # auto_detected_data_type(self)
    THEN routes_data_type_setter(self, auto_detected_data_type(self), t).self
    ELSE self

\* initialize_feature_cache of features_routes.py: the columns with missing data
RECURSIVE routes_InitColumns(_, _, _)
routes_InitColumns(d, k, t) ==
    IF k = 0 THEN <<>>
    ELSE LET column == d.columns[k]
         IN  IF column.missing = 0 THEN routes_InitColumns(d, k - 1, t)
             ELSE CachePut(routes_InitColumns(d, k - 1, t),
                     routes_Feature(column.name,
                                    IF column.dtype \in {"int64", "float64"} THEN "N" ELSE "C",
                                    column.missing,
                                    PercentageMissing(column.missing, d.rows),
                                    column.dtype, t))

routes_initialize_feature_cache(d, t) == routes_InitColumns(d, Len(d.columns), t)

\* calculate_feature_correlations_with_thresholds of features_routes.py: the
\* dispatch is on the pandas dtype of the two columns
routes_calculate_feature_correlations_with_thresholds(d, feature_name, pearson_threshold, cramer_v_threshold, eta_threshold) ==
    IF ColumnIndex(d, feature_name) = 0 THEN <<>>
    ELSE SortByValue(CollectEntries(d, ColumnIndex(d, feature_name), Len(d.columns),
            [k \in DOMAIN d.columns |->
                IF d.columns[k].dtype \in {"int64", "float64"} THEN "N" ELSE "C"],
            pearson_threshold, cramer_v_threshold, eta_threshold))

\* calculate_informative_missingness: the placeholder of the source
calculate_informative_missingness(d, feature_name) == DefaultInformative

\* --------------------------------------- routes/validation_routes.py: data
\* cells of a column that submit_missing_data_options turns into NaN
Replaced(column, na, other) ==
    (IF na THEN column.na ELSE 0) + (IF other THEN column.sentinel ELSE 0)

\* df.replace("N/A", np.nan) and df.replace(-999, np.nan): the replaced cells
\* become null (an int64 column that receives NaN becomes float64); the
\* replaced cells are taken to lie in rows that were complete before
ReplaceTokens(d, na, other) ==
    [d EXCEPT
       !.columns = [k \in DOMAIN d.columns |->
           [d.columns[k] EXCEPT
              !.missing = @ + Replaced(d.columns[k], na, other),
              !.na = IF na THEN 0 ELSE @,
              !.sentinel = IF other THEN 0 ELSE @,
              !.dtype = IF @ = "int64" /\ Replaced(d.columns[k], na, other) > 0
                        THEN "float64" ELSE @]],
       !.assoc = [pr \in DOMAIN d.assoc |->
           LET i == CHOOSE c \in pr : TRUE
               j == CHOOSE c \in pr : c # i
           IN  [d.assoc[pr] EXCEPT
                  !.n = LET paired == @ - Replaced(d.columns[i], na, other)
                                          - Replaced(d.columns[j], na, other)
                        IN  IF paired >= 0 THEN paired ELSE 0]]]

\* LabelEncoder over the object columns other than the target, nulls restored:
\* an encoded column is int64, or Int64 when it has nulls; its tokens are labels
LabelEncode(d, targetFeature) ==
    [d EXCEPT
       !.columns = [k \in DOMAIN d.columns |->
           IF d.columns[k].name # targetFeature /\ d.columns[k].dtype = "object"
           THEN [d.columns[k] EXCEPT
                    !.dtype = IF d.columns[k].missing > 0 THEN "Int64" ELSE "int64",
                    !.na = 0, !.sentinel = 0]
           ELSE d.columns[k]]]

\* pandas reads the token "N/A" of a file as null, so the frames read from a
\* file hold no such cell.
\* an uploaded file: its extension, whether its first row holds only strings,
\* and the frames pandas reads from it with the first row as header (named),
\* with header=None and generated names (unnamed), and with the first row as
\* header and generated names (renamed)
File(ext, all_strings, named, unnamed, renamed) ==
    [ext |-> ext, all_strings |-> all_strings, named |-> named,
     unnamed |-> unnamed, renamed |-> renamed]

\* the files a client uploads
UploadInputs ==
    { \* a .csv survey: as read with its header row, with header=None, renamed
      File(".csv", TRUE,
           DataFrame(40, <<Column("a", "float64", 4, 0, 2, FALSE),
                           Column("b", "object", 3, 0, 0, FALSE)>>,
                     {1, 2} :> Assoc(33, 0, 8004, 0, FALSE)),
           DataFrame(41, <<Column("Feature 1", "object", 4, 0, 2, FALSE),
                           Column("Feature 2", "object", 3, 0, 0, FALSE)>>,
                     {1, 2} :> Assoc(34, 0, 0, 9500, FALSE)),
           DataFrame(40, <<Column("Feature 1", "float64", 4, 0, 2, FALSE),
                           Column("Feature 2", "object", 3, 0, 0, FALSE)>>,
                     {1, 2} :> Assoc(33, 0, 8004, 0, FALSE))),
      \* an .xlsx sheet of numbers
      File(".xlsx", FALSE,
           DataFrame(11, <<Column("1", "int64", 0, 0, 1, FALSE),
                           Column("2", "float64", 0, 0, 0, FALSE)>>,
                     {1, 2} :> Assoc(11, 9996, 0, 0, FALSE)),
           DataFrame(12, <<Column("Feature 1", "int64", 0, 0, 1, FALSE),
                           Column("Feature 2", "float64", 0, 0, 0, FALSE)>>,
                     {1, 2} :> Assoc(12, 9996, 0, 0, FALSE)),
           DataFrame(11, <<Column("Feature 1", "int64", 0, 0, 1, FALSE),
                           Column("Feature 2", "float64", 0, 0, 0, FALSE)>>,
                     {1, 2} :> Assoc(11, 9996, 0, 0, FALSE))),
      \* a file validate_upload rejects (extension, size, unreadable or empty)
      [ext |-> ".txt"] }

\* ------------------------------ routes/dashboard_routes.py: mechanism cache
Verdict(success, mechanism_acronym, p_value, error_type) ==
    [success |-> success, mechanism_acronym |-> mechanism_acronym,
     p_value |-> p_value, error_type |-> error_type]

Failure(error_type) == Verdict(FALSE, NoMechanism, -1, error_type)

\* what MCARTest(method="little").little_mcar_test(df) does: raise, return
\* None, return not-a-number, or return a p-value (in thousandths)
TestOutcomes ==
    { [kind |-> "ImportError"], [kind |-> "ValueError"], [kind |-> "Exception"],
      [kind |-> "None"], [kind |-> "nan"],
      [kind |-> "p", p |-> 10], [kind |-> "p", p |-> 50], [kind |-> "p", p |-> 500] }

\* the outcomes met by the handlers
RouteOutcomes ==
    { [kind |-> "Exception"], [kind |-> "nan"],
      [kind |-> "p", p |-> 10], [kind |-> "p", p |-> 50] }

\* the computation with the size test made before the missing-value test
ComputeMechanism_rows_first(d, outcome) ==
    IF d = None \/ Empty(d) THEN [verdict |-> Failure("no_data"), invoked |-> FALSE]
    ELSE IF d.rows < 30 THEN [verdict |-> Failure("insufficient_data"), invoked |-> FALSE]
    ELSE IF ~AnyNull(d) THEN [verdict |-> Failure("no_missing_data"), invoked |-> FALSE]
    ELSE [invoked |-> TRUE,
          verdict |->
            IF outcome.kind = "ImportError" THEN Failure("library_error")
            ELSE IF outcome.kind = "ValueError" THEN Failure("data_format_error")
            ELSE IF outcome.kind = "Exception" THEN Failure("test_error")
            ELSE IF outcome.kind = "None" THEN Failure("invalid_result")
            ELSE IF outcome.kind = "nan" THEN Failure("invalid_result")
            ELSE [success |-> TRUE,
                  mechanism_acronym |-> IF outcome.p < 50 THEN Chars_MAR_or_MNAR ELSE Chars_MCAR,
                  mechanism_full |-> IF outcome.p < 50
                                     THEN "(Missing at Random or Missing Not at Random)"
                                     ELSE "(Missing Completely at Random)",
                  p_value |-> outcome.p,
                  confidence |-> IF Abs(outcome.p - 50) > 10 THEN "high" ELSE "moderate"]]

\* the computation classifying p <= 0.05 as MAR or MNAR
ComputeMechanism_inclusive(d, outcome) ==
    IF d = None \/ Empty(d) THEN [verdict |-> Failure("no_data"), invoked |-> FALSE]
    ELSE IF ~AnyNull(d) THEN [verdict |-> Failure("no_missing_data"), invoked |-> FALSE]
    ELSE IF d.rows < 30 THEN [verdict |-> Failure("insufficient_data"), invoked |-> FALSE]
    ELSE [invoked |-> TRUE,
          verdict |->
            IF outcome.kind = "ImportError" THEN Failure("library_error")
            ELSE IF outcome.kind = "ValueError" THEN Failure("data_format_error")
            ELSE IF outcome.kind = "Exception" THEN Failure("test_error")
            ELSE IF outcome.kind = "None" THEN Failure("invalid_result")
            ELSE IF outcome.kind = "nan" THEN Failure("invalid_result")
            ELSE [success |-> TRUE,
                  mechanism_acronym |-> IF outcome.p <= 50 THEN Chars_MAR_or_MNAR ELSE Chars_MCAR,
                  mechanism_full |-> IF outcome.p <= 50
                                     THEN "(Missing at Random or Missing Not at Random)"
                                     ELSE "(Missing Completely at Random)",
                  p_value |-> outcome.p,
                  confidence |-> IF Abs(outcome.p - 50) > 10 THEN "high" ELSE "moderate"]]

\* the verdict get_cached_missing_mechanism computes when nothing is cached;
\* invoked tells whether the test was run
ComputeMechanism(d, outcome) ==
    IF d = None \/ Empty(d) THEN [verdict |-> Failure("no_data"), invoked |-> FALSE]
    ELSE IF ~AnyNull(d) THEN [verdict |-> Failure("no_missing_data"), invoked |-> FALSE]
    ELSE IF d.rows < 30 THEN [verdict |-> Failure("insufficient_data"), invoked |-> FALSE]
    ELSE [invoked |-> TRUE,
          verdict |->
            IF outcome.kind = "ImportError" THEN Failure("library_error")
            ELSE IF outcome.kind = "ValueError" THEN Failure("data_format_error")
            ELSE IF outcome.kind = "Exception" THEN Failure("test_error")
            ELSE IF outcome.kind = "None" THEN Failure("invalid_result")
            ELSE IF outcome.kind = "nan" THEN Failure("invalid_result")
            ELSE [success |-> TRUE,
                  mechanism_acronym |-> IF outcome.p < 50 THEN Chars_MAR_or_MNAR ELSE Chars_MCAR,
                  mechanism_full |-> IF outcome.p < 50
                                     THEN "(Missing at Random or Missing Not at Random)"
                                     ELSE "(Missing Completely at Random)",
                  p_value |-> outcome.p,
                  confidence |-> IF Abs(outcome.p - 50) > 10 THEN "high" ELSE "moderate"]]

\* the oracle returning a cached verdict only when it is a success
get_cached_missing_mechanism_retrying(cached, d, outcome) ==
    IF cached # None /\ cached.success
    THEN [verdict |-> cached, invoked |-> FALSE, hit |-> TRUE]
    ELSE [verdict |-> ComputeMechanism(d, outcome).verdict,
          invoked |-> ComputeMechanism(d, outcome).invoked, hit |-> FALSE]

\* get_cached_missing_mechanism: the verdict returned, which is also the one
\* cached afterwards
get_cached_missing_mechanism(cached, d, outcome) ==
    IF cached # None THEN [verdict |-> cached, invoked |-> FALSE, hit |-> TRUE]
    ELSE [verdict |-> ComputeMechanism(d, outcome).verdict,
          invoked |-> ComputeMechanism(d, outcome).invoked, hit |-> FALSE]

\* ------------------------------------------ calculate_all_recommendations
RECURSIVE RecommendFirst(_, _, _, _)
\* the loop over the first k values of FEATURE_CACHE
RecommendFirst(cache, k, dataset_mechanism, t) ==
    IF k = 0 THEN [cache |-> cache, recommendations |-> <<>>]
    ELSE LET prev    == RecommendFirst(cache, k - 1, dataset_mechanism, t)
             feature == prev.cache[k]
             updated == IF needs_recommendation_recalculation(feature)
                        THEN calculate_and_set_recommendation(
                                 feature, "calculate_recommendation", dataset_mechanism, t)
                        ELSE feature
         IN  IF feature.number_missing = 0 THEN prev
             ELSE [cache |-> [prev.cache EXCEPT ![k] = updated],
                   recommendations |-> Append(prev.recommendations,
                       [feature_name |-> feature.name,
                        recommendation |-> updated.recommendation])]

calculate_all_recommendations(cache, dataset_mechanism, t) ==
    RecommendFirst(cache, Len(cache), dataset_mechanism, t)

\* ------------------------------------------------ inputs of the routes
FeatureNamesInputs == {"true", "false", "maybe"}

\* the parsed missingDataOptions; the last one lacks required fields
MissingDataOptionInputs ==
    { [blanks |-> TRUE, na |-> TRUE, other |-> TRUE, otherText |-> "-999"],
      [blanks |-> TRUE, na |-> FALSE, other |-> TRUE, otherText |-> ""],
      [blanks |-> TRUE] }

\* targetFeature and targetType: skipped, a column, an unknown type, no column
TargetInputs ==
    { <<"", "">>, <<"b", "categorical">>, <<"b", "ordinal">>,
      <<"nonexistent", "numerical">> }

\* get_uploaded_dataframe: TRUE when it answers with the 400 error
NoDataFrame(d) == d = None \/ Empty(d)

\* names a client may ask for: a column, a cached feature, or neither
FeatureNameInputs ==
    (IF df = None THEN {} ELSE ColumnNames(df))
    \cup {routes_FEATURE_CACHE[i].name : i \in DOMAIN routes_FEATURE_CACHE}
    \cup {"nonexistent"}

Unchanged_models == UNCHANGED <<FEATURE_CACHE, detached, requests>>
Unchanged_dataset == UNCHANGED <<df, latest_uploaded_file>>
Unchanged_mechanism == UNCHANGED <<missing_data_mechanism, mechanism_df>>

\* a request answered before anything is written
Rejected(op, status) ==
    /\ last' = [op |-> op, status |-> status]
    /\ UNCHANGED <<df, latest_uploaded_file, missing_data_mechanism, mechanism_df,
                   FEATURE_CACHE, routes_FEATURE_CACHE, detached, requests, now>>

\* ------------------------------------------ routes/validation_routes.py
\* POST /api/validate-upload
ValidateUpload ==
    \E file \in UploadInputs :
       IF file.ext \notin {".csv", ".xls", ".xlsx"} THEN Rejected("validate_upload", 400)
       ELSE /\ latest_uploaded_file' = file
            /\ df' = IF file.all_strings THEN file.named ELSE file.unnamed
            /\ FEATURE_CACHE' = <<>>
            /\ last' = [op |-> "validate_upload", status |-> 200]
            /\ Unchanged_mechanism
            /\ UNCHANGED <<routes_FEATURE_CACHE, detached, requests, now>>

\* POST /api/update-feature-names
UpdateFeatureNames ==
    \E featureNames \in FeatureNamesInputs :
       IF latest_uploaded_file = None THEN Rejected("update_feature_names", 400)
       ELSE /\ df' = IF featureNames = "false"
                     THEN IF latest_uploaded_file.ext = ".csv"
                          THEN latest_uploaded_file.renamed
                          ELSE latest_uploaded_file.unnamed
                     ELSE latest_uploaded_file.named
            /\ missing_data_mechanism' = None
            /\ mechanism_df' = None
            /\ FEATURE_CACHE' = <<>>
            /\ last' = [op |-> "update_feature_names", status |-> 200]
            /\ UNCHANGED <<latest_uploaded_file, routes_FEATURE_CACHE, detached, requests, now>>

\* POST /api/submit-feature-names
SubmitFeatureNames ==
    \E featureNames \in FeatureNamesInputs :
       IF featureNames \notin {"true", "false"} THEN Rejected("submit_feature_names", 400)
       ELSE IF latest_uploaded_file = None THEN Rejected("submit_feature_names", 400)
       ELSE /\ df' = IF featureNames = "false"
                     THEN latest_uploaded_file.unnamed
                     ELSE latest_uploaded_file.named
            /\ missing_data_mechanism' = None
            /\ mechanism_df' = None
            /\ FEATURE_CACHE' = <<>>
            /\ last' = [op |-> "submit_feature_names", status |-> 200]
            /\ UNCHANGED <<latest_uploaded_file, routes_FEATURE_CACHE, detached, requests, now>>

\* POST /api/submit-missing-data-options
SubmitMissingDataOptions ==
    \E missing_data_options \in MissingDataOptionInputs :
       IF ~({"blanks", "na", "other", "otherText"} \subseteq DOMAIN missing_data_options)
       THEN Rejected("submit_missing_data_options", 400)
       ELSE IF df = None THEN Rejected("submit_missing_data_options", 400)
       ELSE /\ df' = ReplaceTokens(df, missing_data_options.na,
                        missing_data_options.other /\ missing_data_options.otherText # "")
            /\ missing_data_mechanism' = None
            /\ mechanism_df' = None
            /\ last' = [op |-> "submit_missing_data_options", status |-> 200]
            /\ UNCHANGED <<latest_uploaded_file, FEATURE_CACHE, routes_FEATURE_CACHE,
                           detached, requests, now>>

\* POST /api/submit-target-feature
SubmitTargetFeature ==
    \E target \in TargetInputs :
       LET targetFeature == target[1]
           targetType    == target[2]
       IN
       IF targetFeature # "" /\ targetType # "" /\ targetType \notin {"numerical", "categorical"}
       THEN Rejected("submit_target_feature", 400)
       ELSE IF df = None THEN Rejected("submit_target_feature", 400)
       ELSE IF targetFeature # "" /\ targetType # "" /\ targetFeature \notin ColumnNames(df)
       THEN Rejected("submit_target_feature", 400)
       ELSE /\ df' = LabelEncode(df, IF targetType = "" THEN "" ELSE targetFeature)
            /\ missing_data_mechanism' = None
            /\ mechanism_df' = None
            /\ last' = [op |-> "submit_target_feature", status |-> 200]
            /\ UNCHANGED <<latest_uploaded_file, FEATURE_CACHE, routes_FEATURE_CACHE,
                           detached, requests, now>>

\* -------------------------------------------- routes/dashboard_routes.py
\* GET /api/missing-mechanism
MissingMechanism ==
    \E outcome \in TestOutcomes :
       LET res == get_cached_missing_mechanism(missing_data_mechanism, df, outcome)
       IN  /\ missing_data_mechanism' = res.verdict
           /\ mechanism_df' = IF res.hit THEN mechanism_df ELSE df
           /\ last' = [op |-> "missing_mechanism", status |-> 200,
                       verdict |-> res.verdict, hit |-> res.hit,
                       invoked |-> res.invoked,
                       outcome |-> IF res.invoked THEN outcome ELSE None]
           /\ Unchanged_dataset
           /\ UNCHANGED <<FEATURE_CACHE, routes_FEATURE_CACHE, detached, requests, now>>

\* GET /api/missing-data-recommendations
GetMissingDataRecommendations ==
    /\ now < MaxNow
    /\ \E outcome \in RouteOutcomes :
       IF NoDataFrame(df) THEN Rejected("get_missing_data_recommendations", 400)
       ELSE IF ~AnyNull(df)
       THEN /\ last' = [op |-> "get_missing_data_recommendations", status |-> 200,
                        recommendations |-> <<>>]
            /\ UNCHANGED <<df, latest_uploaded_file, missing_data_mechanism, mechanism_df,
                           FEATURE_CACHE, routes_FEATURE_CACHE, detached, requests, now>>
       ELSE LET built == IF FEATURE_CACHE = <<>>
                         THEN initialize_feature_cache(FEATURE_CACHE, df, now + 1)
                         ELSE [raised |-> FALSE, cache |-> FEATURE_CACHE]
                res   == get_cached_missing_mechanism(missing_data_mechanism, df, outcome)
                dataset_mechanism == IF res.verdict.success
                                     THEN res.verdict.mechanism_acronym ELSE NoMechanism
                all   == calculate_all_recommendations(built.cache, dataset_mechanism, now + 1)
            IN  IF built.raised \/ built.cache = <<>>
                THEN /\ FEATURE_CACHE' = built.cache
                     /\ last' = [op |-> "get_missing_data_recommendations", status |-> 500]
                     /\ now' = now + 1
                     /\ Unchanged_dataset
                     /\ Unchanged_mechanism
                     /\ UNCHANGED <<routes_FEATURE_CACHE, detached, requests>>
                ELSE /\ FEATURE_CACHE' = all.cache
                     /\ missing_data_mechanism' = res.verdict
                     /\ mechanism_df' = IF res.hit THEN mechanism_df ELSE df
                     /\ last' = [op |-> "get_missing_data_recommendations", status |-> 200,
                                 recommendations |-> all.recommendations,
                                 dataset_mechanism |-> dataset_mechanism]
                     /\ now' = IF all.cache # FEATURE_CACHE THEN now + 1 ELSE now
                     /\ Unchanged_dataset
                     /\ UNCHANGED <<routes_FEATURE_CACHE, detached, requests>>

\* --------------------------------------------- routes/features_routes.py
\* "if not FEATURE_CACHE: initialize_feature_cache(df)"
routes_LazyInit(cache, d, t) ==
    IF cache = <<>> THEN routes_initialize_feature_cache(d, t) ELSE cache

to_basic_dict(self) ==
    [feature_name |-> self.name, data_type |-> self.data_type,
     number_missing |-> self.number_missing,
     percentage_missing |-> self.percentage_missing]

\* the clock after a handler that turned the cache before into the cache after
Tick(before, after) == IF after # before THEN now + 1 ELSE now

\* GET /api/missing-features-table
GetFeaturesTable ==
    /\ now < MaxRouteNow
    /\ IF NoDataFrame(df) THEN Rejected("get_features_table", 400)
       ELSE LET cache == routes_LazyInit(routes_FEATURE_CACHE, df, now + 1)
                all_features == get_all_features_from_cache(cache)
            IN  /\ routes_FEATURE_CACHE' = cache
                /\ last' = [op |-> "get_features_table", status |-> 200,
                            features |-> [k \in DOMAIN all_features |->
                                             to_basic_dict(all_features[k])]]
                /\ now' = Tick(routes_FEATURE_CACHE, cache)
                /\ Unchanged_dataset
                /\ Unchanged_mechanism
                /\ Unchanged_models

\* GET /api/feature-details/{feature_name}
GetFeatureDetails ==
    /\ now < MaxRouteNow
    /\ \E feature_name \in FeatureNameInputs, current_thresholds \in ThresholdInputs :
       IF NoDataFrame(df) THEN Rejected("get_feature_details", 400)
       ELSE LET cache   == routes_LazyInit(routes_FEATURE_CACHE, df, now + 1)
                k       == CacheIndex(cache, feature_name)
                feature == cache[k]
                recompute == routes_should_recalculate_correlations(feature, current_thresholds)
                correlated == IF recompute
                              THEN routes_set_correlated_features_with_thresholds(feature,
                                      routes_calculate_feature_correlations_with_thresholds(
                                          df, feature_name,
                                          current_thresholds["pearson_threshold"],
                                          current_thresholds["cramer_v_threshold"],
                                          current_thresholds["eta_squared_threshold"]),
                                      current_thresholds, now + 1)
                              ELSE feature
                informed == IF ~correlated.informative_calculated
                            THEN routes_set_informative_missingness(correlated,
                                    calculate_informative_missingness(df, feature_name), now + 1)
                            ELSE correlated
            IN  /\ Unchanged_dataset
                /\ Unchanged_mechanism
                /\ Unchanged_models
                /\ IF k = 0
                   THEN /\ routes_FEATURE_CACHE' = cache
                        /\ last' = [op |-> "get_feature_details", status |-> 404]
                        /\ now' = Tick(routes_FEATURE_CACHE, cache)
                   ELSE /\ routes_FEATURE_CACHE' = [cache EXCEPT ![k] = informed]
                        /\ last' = [op |-> "get_feature_details", status |-> 200,
                                    feature_name |-> feature_name,
                                    thresholds |-> current_thresholds,
                                    was_calculated |-> feature.correlations_calculated,
                                    recomputed |-> recompute,
                                    details |-> informed]
                        /\ now' = Tick(routes_FEATURE_CACHE, [cache EXCEPT ![k] = informed])

\* PATCH /api/features-table
PatchFeatureDataType ==
    /\ now < MaxRouteNow
    /\ \E feature_name \in FeatureNameInputs, new_type \in DataTypeInputs :
       IF new_type \notin {"N", "C"} THEN Rejected("patch_feature_data_type", 400)
       ELSE IF NoDataFrame(df) THEN Rejected("patch_feature_data_type", 400)
       ELSE LET cache == routes_LazyInit(routes_FEATURE_CACHE, df, now + 1)
                k     == CacheIndex(cache, feature_name)
                res   == routes_data_type_setter(cache[k], new_type, now + 1)
                after == IF k = 0 THEN cache ELSE [cache EXCEPT ![k] = res.self]
            IN  /\ routes_FEATURE_CACHE' = after
                /\ last' = IF k = 0
                           THEN [op |-> "patch_feature_data_type", status |-> 404]
                           ELSE [op |-> "patch_feature_data_type",
                                 status |-> IF res.raised THEN 400 ELSE 200,
                                 feature_name |-> feature_name, data_type |-> new_type,
                                 previous_data_type |-> cache[k].data_type]
                /\ now' = Tick(routes_FEATURE_CACHE, after)
                /\ Unchanged_dataset
                /\ Unchanged_mechanism
                /\ Unchanged_models

\* DELETE /api/features-cache
ClearFeatureCache ==
    /\ routes_FEATURE_CACHE' = <<>>
    /\ last' = [op |-> "clear_feature_cache", status |-> 200]
    /\ Unchanged_dataset
    /\ Unchanged_mechanism
    /\ Unchanged_models
    /\ UNCHANGED now

\* POST /api/features-table/reset-data-type/{feature_name}
ResetFeatureDataType ==
    /\ now < MaxRouteNow
    /\ \E feature_name \in FeatureNameInputs :
       IF NoDataFrame(df) THEN Rejected("reset_feature_data_type", 400)
       ELSE LET cache == routes_LazyInit(routes_FEATURE_CACHE, df, now + 1)
                k     == CacheIndex(cache, feature_name)
                after == IF k = 0 THEN cache
                         ELSE [cache EXCEPT
                                 ![k] = routes_reset_to_auto_detected_type(cache[k], now + 1)]
            IN  /\ routes_FEATURE_CACHE' = after
                /\ last' = IF k = 0
                           THEN [op |-> "reset_feature_data_type", status |-> 404]
                           ELSE [op |-> "reset_feature_data_type", status |-> 200,
                                 feature_name |-> feature_name,
                                 previous_data_type |-> cache[k].data_type,
                                 new_data_type |-> after[k].data_type]
                /\ now' = Tick(routes_FEATURE_CACHE, after)
                /\ Unchanged_dataset
                /\ Unchanged_mechanism
                /\ Unchanged_models

\* The handlers of dashboard_routes.py read and write df, the mechanism cache
\* and the FEATURE_CACHE of models/feature.py; those of features_routes.py read
\* df and write only their own FEATURE_CACHE. Neither group reads what the
\* other writes, so each is explored with the handlers of validation_routes.py.
DatasetNext ==
    \/ ValidateUpload
    \/ UpdateFeatureNames
    \/ SubmitFeatureNames
    \/ SubmitMissingDataOptions
    \/ SubmitTargetFeature

DashboardNext ==
    \/ DatasetNext
    \/ MissingMechanism
    \/ GetMissingDataRecommendations

DashboardSpec == Init /\ [][DashboardNext]_vars

FeaturesNext ==
    \/ DatasetNext
    \/ GetFeaturesTable
    \/ GetFeatureDetails
    \/ PatchFeatureDataType
    \/ ClearFeatureCache
    \/ ResetFeatureDataType

FeaturesSpec == Init /\ [][FeaturesNext]_vars

\* the feature-details route next to the recommendations route of the
\* dashboard, each with the feature store of its own module
DetailsNext ==
    \/ ValidateUpload
    \/ GetFeatureDetails
    \/ GetMissingDataRecommendations

DetailsSpec == Init /\ [][DetailsNext]_vars

\* ------------------------------- models/feature.py: grouping and grammar
\* A reason is kept by the engine above as the pair of its leading words and
\* its mechanism explanation; ReasonText is the text the code builds for it,
\* as the sequence of its words and punctuation marks (the explanation and a
\* quoted feature name are one word each).
ReasonText(reason) ==
    CASE reason[1] = "informative missingness" ->
           <<"These", "numerical", "features", "likely", "have", "informative",
             "missingness", ".">>
      [] reason[1] = "strongly correlated" ->
           <<"These", "features", "with", "missing", "data", "are", "strongly",
             "correlated", "with", "features", "with", "complete", "data", ".",
             "Missing", "values", "can", "be", "predicted", "from", "correlated",
             "features", ",", "making", "removal", "viable", ".">>
      [] reason[1] = "unknown category" ->
           <<"An", "'unknown'", "category", "can", "replace", "missing", "data",
             "for", "categorical", "features", ".", "If", "it", "is", "an",
             "ordinal", "feature", ",", "also", "consider", "adjusting", "the",
             "categories">>
      [] reason[1] = "imputing will introduce bias" ->
           <<"Since", "your", "data", "is", reason[2], ",", "imputing", "missing",
             "data", "with", "mean", ",", "median", ",", "or", "mode", "will",
             "likely", "introduce", "bias", ".", "Consider", "the",
             "alternatives", "instead", ".">>
      [] reason[1] = "all methods are valid" ->
           <<"Since", "your", "data", "is", reason[2], ",", "all", "missing",
             "data", "treatment", "methods", "are", "valid", ".">>
      [] reason[1] = "fallback" ->
           <<"Dataset", "missing", "data", "mechanism", "could", "not", "be",
             "determined", ".">> \o
           (CASE reason[2] = "categorical" ->
                   <<"For", "categorical", "features", ",", "consider", "creating",
                     "an", "'unknown'", "category", "or", "using", "advanced",
                     "imputation", "methods", ".">>
              [] reason[2] = "numerical" ->
                   <<"For", "numerical", "features", ",", "advanced", "methods",
                     "like", "machine", "learning", "algorithms", "or", "multiple",
                     "imputation", "are", "recommended", ".">>
              [] reason[2] = "safe default" ->
                   <<"Advanced", "methods", "are", "recommended", "as", "a", "safe",
                     "default", ".">>
              [] OTHER ->
                   <<"Advanced", "methods", "are", "recommended", "as", "a", "safe",
                     "default", "to", "handle", "potential", "systematic",
                     "missing", "data", "patterns", ".">>)
      [] reason[1] = "unable to determine" ->
           <<"Unable", "to", "determine", "specific", "recommendation", "for",
             "feature", "'{self.name}'", ".", "Using", "conservative", "fallback",
             "approach", ".">>
      [] OTHER ->
           <<"Error", "occurred", "while", "analyzing", "feature", "'{self.name}'",
             ".", "Using", "conservative", "fallback", "approach", ".">>

\* str.replace(old, new), on a text whose occurrences of old begin and end
\* at words: every occurrence, left to right, without overlap
RECURSIVE StrReplace(_, _, _)
StrReplace(text, old, new) ==
    IF Len(text) < Len(old) THEN text
    ELSE IF SubSeq(text, 1, Len(old)) = old
    THEN new \o StrReplace(SubSeq(text, Len(old) + 1, Len(text)), old, new)
    ELSE <<Head(text)>> \o StrReplace(Tail(text), old, new)

\* adjust_reason_grammar without the general patterns of lines 639-643
adjust_reason_grammar_specific_only(reason, feature_count) ==
    LET adjustments ==
          <<<<ReasonText(<<"informative missingness", "">>),
              <<"This", "numerical", "feature", "likely", "has", "informative",
                "missingness", ".">>>>,
            <<<<"categorical", "features">>,
              <<"this", "categorical", "feature">>>>,
            <<<<"For", "numerical", "features", ",", "advanced", "methods">>,
              <<"For", "this", "numerical", "feature", ",", "advanced", "methods">>>> >>
        RECURSIVE Apply(_)
        Apply(k) == IF k = 0 THEN reason
                    ELSE StrReplace(Apply(k - 1), adjustments[k][1], adjustments[k][2])
        adjusted_reason == IF feature_count = 1 THEN Apply(Len(adjustments)) ELSE reason
    IN  IF adjusted_reason # <<>> /\ adjusted_reason[Len(adjusted_reason)] = "."
        THEN adjusted_reason ELSE Append(adjusted_reason, ".")

\* adjust_reason_grammar(reason, feature_count)
adjust_reason_grammar(reason, feature_count) ==
    LET adjustments ==
          <<<<<<"These", "numerical", "features", "likely", "have", "informative",
                "missingness", ".">>,
              <<"This", "numerical", "feature", "likely", "has", "informative",
                "missingness", ".">>>>,
            <<<<"These", "features", "with", "missing", "data", "are", "strongly",
                "correlated", "with", "features", "with", "complete", "data", ".",
                "Missing", "values", "can", "be", "predicted", "from",
                "correlated", "features", ",", "making", "removal", "viable", ".">>,
              <<"This", "feature", "with", "missing", "data", "is", "strongly",
                "correlated", "with", "features", "with", "complete", "data", ".",
                "Missing", "values", "can", "be", "predicted", "from",
                "correlated", "features", ",", "making", "removal", "viable", ".">>>>,
            <<<<"An", "'unknown'", "category", "can", "replace", "missing", "data",
                "for", "categorical", "features", ".", "If", "it", "is", "an",
                "ordinal", "feature", ",", "also", "consider", "adjusting", "the",
                "categories">>,
              <<"An", "'unknown'", "category", "can", "replace", "missing", "data",
                "for", "this", "categorical", "feature", ".", "If", "it", "is",
                "an", "ordinal", "feature", ",", "also", "consider", "adjusting",
                "the", "categories", ".">>>>,
            <<<<"categorical", "features">>,
              <<"this", "categorical", "feature">>>>,
            <<<<"For", "categorical", "features", ",", "consider", "creating">>,
              <<"For", "this", "categorical", "feature", ",", "consider",
                "creating">>>>,
            <<<<"For", "numerical", "features", ",", "advanced", "methods">>,
              <<"For", "this", "numerical", "feature", ",", "advanced", "methods">>>>,
            <<<<"These", "features">>, <<"This", "feature">>>>,
            <<<<"these", "features">>, <<"this", "feature">>>>,
            <<<<"numerical", "features">>, <<"this", "numerical", "feature">>>>,
            <<<<"are", "strongly", "correlated">>, <<"is", "strongly", "correlated">>>>,
            <<<<"have", "informative">>, <<"has", "informative">>>> >>
        RECURSIVE Apply(_)
        Apply(k) == IF k = 0 THEN reason
                    ELSE StrReplace(Apply(k - 1), adjustments[k][1], adjustments[k][2])
        adjusted_reason == IF feature_count = 1 THEN Apply(Len(adjustments)) ELSE reason
    IN  IF adjusted_reason # <<>> /\ adjusted_reason[Len(adjusted_reason)] = "."
        THEN adjusted_reason ELSE Append(adjusted_reason, ".")

\* a grouping that opens a new group whenever the type differs from the
\* type of the newest group
RECURSIVE GroupFirst_adjacent(_, _)
GroupFirst_adjacent(recommendations, k) ==
    IF k = 0 THEN <<>>
    ELSE LET grouped        == GroupFirst_adjacent(recommendations, k - 1)
             feature_name   == recommendations[k].feature_name
             recommendation == recommendations[k].recommendation
         IN  IF recommendation = None THEN grouped
             ELSE IF /\ grouped # <<>>
                     /\ grouped[Len(grouped)].recommendation_type =
                            recommendation.recommendation_type
             THEN [grouped EXCEPT ![Len(grouped)].features = Append(@, feature_name)]
             ELSE Append(grouped,
                         [recommendation_type |-> recommendation.recommendation_type,
                          features |-> <<feature_name>>,
                          reason |-> recommendation.reason])

\* the loop of group_recommendations_by_type (lines 563-578): the dict grouped,
\* in insertion order, after the first k items of recommendations
RECURSIVE GroupFirst(_, _)
GroupFirst(recommendations, k) ==
    IF k = 0 THEN <<>>
    ELSE LET grouped        == GroupFirst(recommendations, k - 1)
             feature_name   == recommendations[k].feature_name
             recommendation == recommendations[k].recommendation
             g == IF \E i \in DOMAIN grouped :
                        grouped[i].recommendation_type = recommendation.recommendation_type
                  THEN CHOOSE i \in DOMAIN grouped :
                        grouped[i].recommendation_type = recommendation.recommendation_type
                  ELSE 0
         IN  IF recommendation = None THEN grouped
             ELSE IF g # 0
             THEN [grouped EXCEPT ![g].features = Append(@, feature_name)]
             ELSE Append(grouped,
                         [recommendation_type |-> recommendation.recommendation_type,
                          features |-> <<feature_name>>,
                          reason |-> recommendation.reason])

\* group_recommendations_by_type(recommendations), reading FEATURE_CACHE = cache:
\* recommendations is the dict as the sequence of its items
group_recommendations_by_type(cache, recommendations) ==
    LET grouped == GroupFirst(recommendations, Len(recommendations))
        result  == [i \in DOMAIN grouped |->
                      [grouped[i] EXCEPT !.reason =
                          adjust_reason_grammar(ReasonText(@), Len(grouped[i].features))]]
        get_rule_priority(rec_data) ==
            LET feature == CacheIndex(cache, rec_data.features[1])
            IN  IF feature # 0 /\ cache[feature].recommendation # None
                THEN IF "rule_applied" \in DOMAIN cache[feature].recommendation
                     THEN cache[feature].recommendation.rule_applied ELSE 999
                ELSE 999
        \* list.sort(key=get_rule_priority): stable, ascending
        RECURSIVE Insert(_, _)
        Insert(sorted, rec_data) ==
            IF sorted = <<>> THEN <<rec_data>>
            ELSE IF get_rule_priority(Head(sorted)) <= get_rule_priority(rec_data)
            THEN <<Head(sorted)>> \o Insert(Tail(sorted), rec_data)
            ELSE <<rec_data>> \o sorted
        RECURSIVE Sort(_)
        Sort(k) == IF k = 0 THEN <<>> ELSE Insert(Sort(k - 1), result[k])
    IN  Sort(Len(result))

\* group_recommendations_by_type(recommendations)
GroupRecommendationsByType ==
    /\ \E recommendations \in
             { <<[feature_name |-> "a", recommendation |-> ra],
                 [feature_name |-> "b", recommendation |-> rb],
                 [feature_name |-> "c", recommendation |-> rc]>> :
               ra, rb, rc \in
                 { None,
                   Recommendation(Type_MissingIndicator,
                                  <<"informative missingness", "">>, 1),
                   Recommendation(Type_UnknownCategory, <<"unknown category", "">>, 3),
                   Recommendation(Type_MachineLearning,
                                  <<"imputing will introduce bias",
                                    get_mechanism_explanation(Chars_MAR)>>, 4) } } :
          last' = [op |-> "group_recommendations_by_type",
                   recommendations |-> recommendations,
                   result |-> group_recommendations_by_type(FEATURE_CACHE, recommendations)]
    /\ UNCHANGED <<FEATURE_CACHE, detached, now>>
    /\ AppUnchanged

\* adjust_reason_grammar(reason, feature_count), on the texts of the engine
\* and of the tests
AdjustReasonGrammar ==
    /\ \E reason \in
             { ReasonText(tag) :
                 tag \in ({"informative missingness", "strongly correlated",
                           "unknown category", "unable to determine",
                           "error occurred"} \X {""})
                     \cup ({"imputing will introduce bias"}
                              \X {get_mechanism_explanation(m) :
                                     m \in {Chars_MAR_or_MNAR, Chars_MAR, Chars_MNAR}})
                     \cup {<<"all methods are valid", get_mechanism_explanation(Chars_MCAR)>>}
                     \cup ({"fallback"} \X {"categorical", "numerical", "safe default",
                                            "safe default, systematic patterns"}) }
             \cup { <<"These", "features", "with", "missing", "data", "are",
                      "strongly", "correlated">>,
                    <<"An", "'unknown'", "category", "can", "replace", "missing",
                      "data", "for", "categorical", "features", ".">> },
          feature_count \in 0 .. 2 :
          last' = [op |-> "adjust_reason_grammar", reason |-> reason,
                   feature_count |-> feature_count,
                   result |-> adjust_reason_grammar(reason, feature_count)]
    /\ UNCHANGED <<FEATURE_CACHE, detached, now>>
    /\ AppUnchanged

\* --------------------------------------- models/feature.py: reading the cache
\* A cache of up to three Features built as by Feature(name, "N", missing,
\* percentage) over 20 rows: without missing values, or with a recommendation
\* stored on them.
QueryInit ==
    /\ df = None
    /\ latest_uploaded_file = None
    /\ missing_data_mechanism = None
    /\ mechanism_df = None
    /\ LET Stored(name) ==
               { Feature(name, "N", 0, PercentageMissing(0, 20), "float64", 1),
                 set_recommendation(
                     Feature(name, "N", 5, PercentageMissing(5, 20), "float64", 1),
                     Recommendation(Type_MachineLearning,
                                    <<"imputing will introduce bias",
                                      get_mechanism_explanation(Chars_MAR)>>, 4), 2),
                 set_recommendation(
                     Feature(name, "N", 10, PercentageMissing(10, 20), "float64", 1),
                     Recommendation(Type_MissingIndicator,
                                    <<"informative missingness", "">>, 1), 2) }
       IN  FEATURE_CACHE \in
               {<<>>} \cup { <<a>> : a \in Stored("a") }
                      \cup { <<a, b>> : a \in Stored("a"), b \in Stored("b") }
                      \cup { <<a, b, c>> : a \in Stored("a"), b \in Stored("b"),
                                           c \in Stored("c") }
    /\ routes_FEATURE_CACHE = <<>>
    /\ detached = None
    /\ now = 3
    /\ requests = <<>>
    /\ last = [op |-> "init"]

\* get_all_features_from_cache()
GetAllFeaturesFromCache ==
    /\ last' = [op |-> "get_all_features_from_cache",
                result |-> get_all_features_from_cache(FEATURE_CACHE)]
    /\ UNCHANGED <<FEATURE_CACHE, detached, now>>
    /\ AppUnchanged

QueryNext ==
    \/ GetAllFeaturesFromCache
    \/ GroupRecommendationsByType
    \/ AdjustReasonGrammar

QuerySpec == QueryInit /\ [][QueryNext]_vars

\* ------------------- routes/features_routes.py: requests served concurrently
\* get_features_table is a plain def, which the server runs on a pool of
\* threads; nothing in the module locks FEATURE_CACHE.  A thread serving
\* GET /api/missing-features-table is at one of the statements
\*   "test"   if not FEATURE_CACHE:                      (line 355)
\*   "clear"  FEATURE_CACHE.clear()                      (line 187)
\*   "column" the body of the loop for column k          (lines 189-206)
\*   "read"   all_features = get_all_features_from_cache (line 359)
\* and the threads interleave between these statements.
ConcurrentInit ==
    /\ \E file \in UploadInputs :
          /\ file.ext \in {".csv", ".xls", ".xlsx"}
          /\ latest_uploaded_file = file
          /\ df = IF file.all_strings THEN file.named ELSE file.unnamed
    /\ missing_data_mechanism = None
    /\ mechanism_df = None
    /\ FEATURE_CACHE = <<>>
    /\ routes_FEATURE_CACHE = <<>>
    /\ detached = None
    /\ now = 0
    /\ requests = [t \in 1 .. Threads |-> [pc |-> "test", k |-> 0]]
    /\ last = [op |-> "validate_upload", status |-> 200]

\* if not FEATURE_CACHE:
TestCache ==
    \E t \in DOMAIN requests :
       /\ requests[t].pc = "test"
       /\ requests' = [requests EXCEPT ![t].pc =
                          IF routes_FEATURE_CACHE = <<>> THEN "clear" ELSE "read"]
       /\ UNCHANGED <<routes_FEATURE_CACHE, now, last>>
       /\ Unchanged_dataset
       /\ Unchanged_mechanism
       /\ UNCHANGED <<FEATURE_CACHE, detached>>

\* initialize_feature_cache(df): FEATURE_CACHE.clear()
ClearCache ==
    \E t \in DOMAIN requests :
       /\ requests[t].pc = "clear"
       /\ now < MaxRouteNow
       /\ routes_FEATURE_CACHE' = <<>>
       /\ now' = now + 1
       /\ requests' = [requests EXCEPT ![t] = [pc |-> "column", k |-> 1]]
       /\ UNCHANGED last
       /\ Unchanged_dataset
       /\ Unchanged_mechanism
       /\ UNCHANGED <<FEATURE_CACHE, detached>>

\* initialize_feature_cache(df): the loop body for one column
AddColumn ==
    \E t \in DOMAIN requests :
       /\ requests[t].pc = "column"
       /\ LET k      == requests[t].k
              column == df.columns[k]
          IN  /\ routes_FEATURE_CACHE' =
                    IF column.missing = 0 THEN routes_FEATURE_CACHE
                    ELSE CachePut(routes_FEATURE_CACHE,
                            routes_Feature(column.name,
                                IF column.dtype \in {"int64", "float64"} THEN "N" ELSE "C",
                                column.missing,
                                PercentageMissing(column.missing, df.rows),
                                column.dtype, now))
              /\ requests' = [requests EXCEPT ![t] =
                                 IF k < Len(df.columns)
                                 THEN [pc |-> "column", k |-> k + 1]
                                 ELSE [pc |-> "read", k |-> 0]]
       /\ UNCHANGED <<now, last>>
       /\ Unchanged_dataset
       /\ Unchanged_mechanism
       /\ UNCHANGED <<FEATURE_CACHE, detached>>

\* all_features = get_all_features_from_cache() and the response built from it
ReadAll ==
    \E t \in DOMAIN requests :
       /\ requests[t].pc = "read"
       /\ LET all_features == get_all_features_from_cache(routes_FEATURE_CACHE)
          IN  last' = [op |-> "get_features_table", status |-> 200,
                       features |-> [k \in DOMAIN all_features |->
                                        to_basic_dict(all_features[k])],
                       thread |-> t]
       /\ requests' = [requests EXCEPT ![t].pc = "test"]
       /\ UNCHANGED <<routes_FEATURE_CACHE, now>>
       /\ Unchanged_dataset
       /\ Unchanged_mechanism
       /\ UNCHANGED <<FEATURE_CACHE, detached>>

ConcurrentNext ==
    \/ TestCache
    \/ ClearCache
    \/ AddColumn
    \/ ReadAll

ConcurrentSpec == ConcurrentInit /\ [][ConcurrentNext]_vars

\* ====================================================================
\* Properties
\* ====================================================================
\* C1 (as claimed): after semantic_type of any Feature, registered in the
\* cache or not, is assigned a different valid value, that Feature has empty
\* correlations, the default informative verdict, no recommendation and all
\* three computed flags false.
C1_TypeChangeInvalidatesRecord ==
    (last.op = "data_type" /\ last.changed) =>
        LET r == Self(last.ref)
        IN  /\ r.correlated_features = <<>>
            /\ ~r.correlations_calculated
            /\ r.informative_missingness = DefaultInformative
            /\ ~r.informative_calculated
            /\ r.recommendation = None
            /\ ~r.recommendation_calculated

MutatorsOfInputs ==
    {"set_correlated_features", "set_correlated_features_with_thresholds",
     "clear_correlations", "set_informative_missingness"}

\* C2: each of set_correlated_features, set_correlated_features_with_thresholds,
\* clear_correlations and set_informative_missingness leaves the Feature with
\* recommendation = None and recommendation_calculated = FALSE.
C2_MutationClearsRecommendation ==
    last.op \in MutatorsOfInputs =>
        /\ Self(last.ref).recommendation = None
        /\ ~Self(last.ref).recommendation_calculated

C2_Witness ==
    /\ last.op \in MutatorsOfInputs
    /\ last.had_recommendation
    /\ Self(last.ref).recommendation = None

\* The five rule conditions, as the claim words them.
RuleCondition(i, feature, dataset_mechanism) ==
    CASE i = 1 -> feature.informative_calculated
                  /\ feature.informative_missingness.is_informative
      [] i = 2 -> feature.correlations_calculated
                  /\ feature.correlated_features # <<>>
      [] i = 3 -> feature.data_type = "C"
      [] i = 4 -> dataset_mechanism \in {Chars_MAR_or_MNAR, Chars_MAR, Chars_MNAR}
      [] i = 5 -> dataset_mechanism = Chars_MCAR

FirstRule(feature, dataset_mechanism) ==
    CHOOSE i \in 1..5 :
        /\ RuleCondition(i, feature, dataset_mechanism)
        /\ \A j \in 1..(i - 1) : ~RuleCondition(j, feature, dataset_mechanism)

SomeRule(feature, dataset_mechanism) ==
    \E i \in 1..5 : RuleCondition(i, feature, dataset_mechanism)

IsFeature(object) == object # None /\ "recommendation_calculated" \in DOMAIN object

\* C4 (as claimed): for every Feature state and every mechanism among MCAR,
\* MAR or MNAR and none, the result's rule_applied is the smallest i in 1..5
\* whose condition holds.
C4_RuleIsFirstHoldingCondition ==
    (/\ last.op = "calculate_recommendation"
     /\ IsFeature(last.feature)
     /\ last.dataset_mechanism \in {Chars_MCAR, Chars_MAR_or_MNAR, NoMechanism}) =>
        /\ last.result # None
        /\ SomeRule(last.feature, last.dataset_mechanism)
        /\ last.result.rule_applied = FirstRule(last.feature, last.dataset_mechanism)

\* C4 (amended): for every Feature state and every mechanism value the
\* result's rule_applied is the smallest i in 1..5 whose condition holds when
\* some condition holds, and 4 (the fallback) when none holds.
C4_RuleIsFirstHoldingConditionOrFallback ==
    (last.op = "calculate_recommendation" /\ IsFeature(last.feature)) =>
        /\ last.result # None
        /\ last.result.rule_applied =
              IF SomeRule(last.feature, last.dataset_mechanism)
              THEN FirstRule(last.feature, last.dataset_mechanism)
              ELSE 4

C4_Witness ==
    /\ last.op = "calculate_recommendation"
    /\ IsFeature(last.feature)
    /\ RuleCondition(2, last.feature, last.dataset_mechanism)
    /\ RuleCondition(3, last.feature, last.dataset_mechanism)
    /\ RuleCondition(4, last.feature, last.dataset_mechanism)
    /\ last.result.rule_applied = 2

\* C5: every Feature whose informative_missingness.is_informative is true gets
\* rule 1 from the engine, for every mechanism value, whatever its
\* correlations and its type.
C5_InformativeYieldsRuleOne ==
    \A ref \in Refs :
        Self(ref).informative_missingness.is_informative =>
            \A dataset_mechanism \in MechanismInputs :
                /\ calculate_recommendation(Self(ref), dataset_mechanism) # None
                /\ calculate_recommendation(Self(ref), dataset_mechanism).rule_applied = 1

C5_Witness ==
    /\ last.op = "calculate_and_set_recommendation"
    /\ Self(last.ref).informative_missingness.is_informative
    /\ Self(last.ref).correlations_calculated
    /\ Self(last.ref).correlated_features # <<>>
    /\ Self(last.ref).recommendation.rule_applied = 1

PlainRecommendationKeys == {"recommendation_type", "reason", "rule_applied"}

\* C6: the engine never propagates a failure and never returns an absent
\* result; when an exception occurs outside the guarded rule checks or in the
\* fallback step it returns the rule-4 recommendation type tagged as an error.
C6_NeverPropagatesNeverAbsent ==
    last.op = "calculate_recommendation" =>
        LET \* the object cannot be named: it is None, has no name, or reading
            \* name raises
            Unnameable(object) ==
                object = None \/ "name" \notin DOMAIN object \/ "name" \in Broken(object)
            \* no rule fires for the object and the fallback step raises
            FallbackRaises(object, dataset_mechanism) ==
                /\ ~Unnameable(object)
                /\ "data_type" \in Broken(object)
                /\ has_informative_missingness(object) # "T"
                /\ is_strongly_correlated(object) # "T"
                /\ is_mar_or_mnar_mechanism(dataset_mechanism) # "T"
                /\ is_mcar_mechanism(dataset_mechanism) # "T"
        IN  /\ last.result # Raised
            /\ last.result # None
            /\ (Unnameable(last.feature)
                  \/ FallbackRaises(last.feature, last.dataset_mechanism)) =>
                  /\ last.result.recommendation_type = Type_MachineLearning
                  /\ DOMAIN last.result # PlainRecommendationKeys

\* C7: when initialize_feature_cache fails (dataset absent, zero rows, or no
\* column could be processed) it raises and FEATURE_CACHE is empty afterwards,
\* whatever it held before.
C7_FailedRebuildLeavesStoreEmpty ==
    last.op = "initialize_feature_cache" =>
        /\ (\/ last.d = None
            \/ last.d.rows = 0
            \/ \A i \in DOMAIN last.d.columns :
                  last.d.columns[i].bad \/ last.d.columns[i].name = "") => last.raised
        /\ last.raised => FEATURE_CACHE = <<>>

C7_Witness ==
    /\ last.op = "initialize_feature_cache"
    /\ last.raised
    /\ last.size_before > 0
    /\ FEATURE_CACHE = <<>>

\* ------------------------------------------------------------------ C3
\* C3: a feature-details request for a feature recomputes its correlations if
\* and only if the record's correlations_calculated is false or one of the
\* requested thresholds differs from the one recorded in last_thresholds; a
\* record created by the request itself is not yet computed, so it is
\* computed; a request that does not recompute leaves the correlations as
\* they were.
C3_RecomputeIffStaleOrThresholdsDiffer ==
    [][ (last'.op = "get_feature_details" /\ last'.status = 200) =>
          IF routes_FEATURE_CACHE = <<>>
          THEN last'.recomputed
          ELSE LET \* the record of the feature the request is about, before
                   \* and after the request
                   Requested == routes_FEATURE_CACHE[
                                   CacheIndex(routes_FEATURE_CACHE, last'.feature_name)]
                   Served    == routes_FEATURE_CACHE'[
                                   CacheIndex(routes_FEATURE_CACHE', last'.feature_name)]
               IN  /\ last'.recomputed <=>
                         (\/ ~Requested.correlations_calculated
                          \/ \E k \in ThKeys :
                                DictGet(Requested.last_thresholds, k) # last'.thresholds[k])
                   /\ ~last'.recomputed =>
                         Served.correlated_features = Requested.correlated_features
      ]_vars

\* a request that found the correlations computed under other thresholds and
\* recomputed them
C3_Witness ==
    /\ last.op = "get_feature_details"
    /\ last.status = 200
    /\ last.was_calculated
    /\ last.recomputed
    /\ last.details.correlated_features # <<>>

\* ------------------------------------------------------------------ C8
\* C8: after every operation that replaces the dataset, re-encodes it or
\* changes its missing-value substitutions no mechanism verdict is cached, and
\* every verdict the oracle returns was computed from the current dataset.
C8_NoVerdictSurvivesDatasetChange ==
    /\ (/\ last.op \in {"validate_upload", "update_feature_names", "submit_feature_names",
                        "submit_missing_data_options", "submit_target_feature"}
        /\ last.status = 200) => missing_data_mechanism = None
    /\ last.op = "missing_mechanism" => mechanism_df = df

\* ------------------------------------------------------------------ C9
\* C9: after a lazily initialising feature read, every record of the feature
\* store has number_missing, percentage_missing and original_dtype computed
\* from the dataset that is loaded.
C9_RecordsComputedFromLoadedDataset ==
    (last.op = "get_features_table" /\ last.status = 200) =>
        \A i \in DOMAIN routes_FEATURE_CACHE :
            LET self == routes_FEATURE_CACHE[i]
            IN  /\ df # None
                /\ ColumnIndex(df, self.name) # 0
                /\ LET column == df.columns[ColumnIndex(df, self.name)]
                   IN  /\ self.number_missing = column.missing
                       /\ self.percentage_missing =
                              PercentageMissing(column.missing, df.rows)
                       /\ self.original_dtype = column.dtype

\* ----------------------------------------------------------------- C10
\* C10: assigning data_type a value other than 'N' and 'C' raises and changes
\* no field of the record and no other record.
C10_InvalidTypeChangesNothing ==
    [][ (last'.op = "data_type" /\ last'.value \notin {"N", "C"}) =>
          /\ last'.raised
          /\ FEATURE_CACHE' = FEATURE_CACHE
          /\ detached' = detached
      ]_vars

\* an invalid assignment to a cached record while the cache holds computed
\* correlations
C10_Witness ==
    /\ last.op = "data_type"
    /\ last.value \notin {"N", "C"}
    /\ last.raised
    /\ last.ref # 0
    /\ Len(FEATURE_CACHE) >= 2
    /\ \E i \in DOMAIN FEATURE_CACHE : FEATURE_CACHE[i].correlations_calculated

\* ----------------------------------------------------------------- C11
\* C11: assigning data_type its current value is a no-op: the record keeps its
\* correlations, thresholds snapshot, informative verdict, recommendation,
\* computed flags and last_updated, and no other record of FEATURE_CACHE is
\* modified.
C11_SameTypeAssignmentIsNoOp ==
    [][ (/\ last'.op = "data_type"
         /\ last'.value \in {"N", "C"}
         /\ Self(last'.ref).data_type = last'.value) =>
          /\ ~last'.raised
          /\ FEATURE_CACHE' = FEATURE_CACHE
          /\ detached' = detached
      ]_vars

\* a same-value assignment to a cached record that carries computed
\* correlations and a recommendation
C11_Witness ==
    /\ last.op = "data_type"
    /\ ~last.raised
    /\ ~last.changed
    /\ last.ref # 0
    /\ Len(FEATURE_CACHE) >= 2
    /\ Self(last.ref).correlations_calculated
    /\ Self(last.ref).recommendation # None

\* ----------------------------------------------------------------- C12
\* C12 (as claimed): a type change is local; changing the data_type of one
\* Feature leaves every other record of FEATURE_CACHE unchanged (correlations,
\* correlations_calculated, last_thresholds, recommendation,
\* recommendation_calculated and last_updated).
C12_TypeChangeIsLocal ==
    [][ (last'.op = "data_type" /\ last'.changed) =>
          \A i \in DOMAIN FEATURE_CACHE :
              i # last'.ref => FEATURE_CACHE'[i] = FEATURE_CACHE[i]
      ]_vars

\* ----------------------------------------------------------------- C13
\* C13 (as claimed): the list returned by
\* calculate_feature_correlations_with_thresholds is ordered by non-increasing
\* |value| of the reported values, every reported |value| is at least the
\* threshold of its kind, also after rounding, and the list holds no entry for
\* the feature itself and at most one entry per partner.
C13_SortedAndNotBelowThreshold ==
    last.op = "calculate_feature_correlations_with_thresholds" =>
        LET entries == last.result
            ThresholdOfKind(kind) ==
                CASE kind = "r"   -> last.pearson_threshold
                  [] kind = "eta" -> last.eta_threshold
                  [] kind = "V"   -> last.cramer_v_threshold
        IN  /\ \A k \in 1..(Len(entries) - 1) :
                  Abs(entries[k].correlation_value) >= Abs(entries[k + 1].correlation_value)
            /\ \A k \in DOMAIN entries : entries[k].feature_name # last.feature_name
            /\ \A k, l \in DOMAIN entries :
                  entries[k].feature_name = entries[l].feature_name => k = l
            /\ \A k \in DOMAIN entries :
                  10 * Abs(entries[k].correlation_value)
                      >= ThresholdOfKind(entries[k].correlation_type)

\* ----------------------------------------------------------------- C14
\* C14 (as claimed): whatever the kind of test, a pair of columns is scored
\* only if more than 10 rows are non-missing in both; a pair with 10 paired
\* rows or fewer contributes no entry.
C14_ScoredOnlyAboveTenPairedRows ==
    last.op = "calculate_feature_correlations_with_thresholds" =>
        \A k \in DOMAIN last.result :
            last.d.assoc[{ColumnIndex(last.d, last.feature_name),
                          ColumnIndex(last.d, last.result[k].feature_name)}].n > 10

\* ----------------------------------------------------------------- C15
\* C15: every entry returned for feature F and partner P has the kind given by
\* the data_type of the two records of FEATURE_CACHE at the call (a partner
\* without a record counts as Categorical): r iff both are Numeric, Eta iff
\* exactly one is, V iff both are Categorical; an Eta entry was computed with
\* the Numeric one as the numeric variable, so that column holds numbers.
C15_KindFollowsRecordedTypes ==
    last.op = "calculate_feature_correlations_with_thresholds" =>
        \A k \in DOMAIN last.result :
            LET entry        == last.result[k]
                feature_type == CachedDataType(FEATURE_CACHE, last.feature_name)
                partner_type == CachedDataType(FEATURE_CACHE, entry.feature_name)
                numeric_name == IF feature_type = "N" THEN last.feature_name
                                ELSE entry.feature_name
            IN  /\ CacheIndex(FEATURE_CACHE, last.feature_name) # 0
                /\ entry.correlation_type =
                      IF feature_type = "N" /\ partner_type = "N" THEN "r"
                      ELSE IF feature_type = "C" /\ partner_type = "C" THEN "V"
                      ELSE "eta"
                /\ entry.correlation_type = "eta" =>
                      IsNumeric(last.d.columns[ColumnIndex(last.d, numeric_name)])

\* an Eta entry for a Categorical feature and a Numeric partner, both recorded,
\* where the feature's column holds numbers
C15_Witness ==
    /\ last.op = "calculate_feature_correlations_with_thresholds"
    /\ \E k \in DOMAIN last.result :
          /\ last.result[k].correlation_type = "eta"
          /\ CachedDataType(FEATURE_CACHE, last.feature_name) = "C"
          /\ CacheIndex(FEATURE_CACHE, last.result[k].feature_name) # 0
          /\ CachedDataType(FEATURE_CACHE, last.result[k].feature_name) = "N"
          /\ IsNumeric(last.d.columns[ColumnIndex(last.d, last.feature_name)])

\* ----------------------------------------------------------------- C16
\* C16 (as claimed): a column without a record in FEATURE_CACHE is treated as
\* Categorical, as the requested feature as well as a partner: the call
\* returns the entries it would return if the unrecorded columns were
\* recorded as Categorical.
C16_UnrecordedTreatedAsCategorical ==
    last.op = "calculate_feature_correlations_with_thresholds" =>
        LET categorical == [k \in DOMAIN last.d.columns |->
                               Feature(last.d.columns[k].name, "C", 0, 0, "object", now)]
            unrecorded(feature) == CacheIndex(FEATURE_CACHE, feature.name) = 0
            completed == FEATURE_CACHE \o SelectSeq(categorical, unrecorded)
        IN  last.result = calculate_feature_correlations_with_thresholds(
                              completed, last.d, last.feature_name,
                              last.pearson_threshold, last.cramer_v_threshold,
                              last.eta_threshold)

\* ----------------------------------------------------------------- C17
\* C17: a call of the oracle that computes (nothing cached) takes the first
\* failing precondition in the order dataset present and non-empty, some
\* missing value, at least 30 rows, test runs without error, result finite
\* and defined; that precondition gives the tag, the tags of different
\* preconditions differ, and the test is invoked exactly when the first three
\* hold.
C17_FirstFailingPreconditionTags ==
    (last.op = "missing_mechanism" /\ ~last.hit) =>
        LET tag == IF last.verdict.success THEN "" ELSE last.verdict.error_type
        IN  /\ tag = IF NoDataFrame(df) THEN "no_data"
                     ELSE IF ~AnyNull(df) THEN "no_missing_data"
                     ELSE IF df.rows < 30 THEN "insufficient_data"
                     ELSE IF last.outcome.kind = "ImportError" THEN "library_error"
                     ELSE IF last.outcome.kind = "ValueError" THEN "data_format_error"
                     ELSE IF last.outcome.kind = "Exception" THEN "test_error"
                     ELSE IF last.outcome.kind \in {"None", "nan"} THEN "invalid_result"
                     ELSE ""
            /\ last.invoked <=> (~NoDataFrame(df) /\ AnyNull(df) /\ df.rows >= 30)
            /\ ~last.invoked => last.outcome = None

\* a dataset without missing values and with fewer than 30 rows: tagged
\* no_missing_data, the test not invoked
C17_Witness ==
    /\ last.op = "missing_mechanism"
    /\ ~last.hit
    /\ ~NoDataFrame(df)
    /\ ~AnyNull(df)
    /\ df.rows < 30
    /\ ~last.verdict.success
    /\ last.verdict.error_type = "no_missing_data"
    /\ ~last.invoked

\* ----------------------------------------------------------------- C18
\* C18: every successful verdict the oracle returns has a defined, finite
\* p-value p and the mechanism 'MAR or MNAR' if p < 0.05, 'MCAR' otherwise;
\* p = 0.05 gives MCAR.
C18_MechanismFollowsPValue ==
    (last.op = "missing_mechanism" /\ last.verdict.success) =>
        /\ last.verdict.p_value # NaN
        /\ last.verdict.p_value >= 0
        /\ last.verdict.p_value < 50 <=> last.verdict.mechanism_acronym = Chars_MAR_or_MNAR
        /\ last.verdict.p_value >= 50 <=> last.verdict.mechanism_acronym = Chars_MCAR

\* a test that returned exactly 0.05
C18_Witness ==
    /\ last.op = "missing_mechanism"
    /\ last.verdict.success
    /\ last.verdict.p_value = 50
    /\ last.verdict.mechanism_acronym = Chars_MCAR

\* ----------------------------------------------------------------- C19
\* C19: once a verdict is cached, success or tagged failure alike, every call
\* of the oracle returns that verdict without invoking the test and leaves it
\* cached; the cached verdict disappears only through an operation that calls
\* clear_missing_mechanism_cache, and a call that finds nothing cached
\* computes a verdict and caches it.
C19_VerdictCachedUntilCleared ==
    [][ /\ last'.op = "missing_mechanism" =>
              /\ missing_data_mechanism' = last'.verdict
              /\ IF missing_data_mechanism # None
                 THEN /\ last'.verdict = missing_data_mechanism
                      /\ last'.hit
                      /\ ~last'.invoked
                 ELSE /\ ~last'.hit
                      /\ last'.invoked <=>
                            (~NoDataFrame(df) /\ AnyNull(df) /\ df.rows >= 30)
        /\ (missing_data_mechanism # None /\ missing_data_mechanism' # missing_data_mechanism) =>
              /\ last'.op \in {"update_feature_names", "submit_feature_names",
                               "submit_missing_data_options", "submit_target_feature"}
              /\ missing_data_mechanism' = None
      ]_vars

\* a call answered with the cached verdict of a test that had raised
C19_Witness ==
    /\ last.op = "missing_mechanism"
    /\ last.hit
    /\ ~last.verdict.success
    /\ last.verdict.error_type = "test_error"
    /\ ~NoDataFrame(df) /\ AnyNull(df) /\ df.rows >= 30

\* ----------------------------------------------------------------- C20
\* C20 (as claimed): a Feature of either data_type with correlations_calculated
\* and informative_calculated false gets rule_applied = 5 under mechanism
\* 'MCAR'.
C20_UncomputedUnderMCARYieldsRuleFive ==
    (/\ last.op = "calculate_recommendation"
     /\ IsFeature(last.feature)
     /\ ~last.feature.correlations_calculated
     /\ ~last.feature.informative_calculated
     /\ last.dataset_mechanism = Chars_MCAR) =>
        /\ last.result # None
        /\ last.result.rule_applied = 5

\* C20 (amended): such a Feature gets rule_applied = 5 under 'MCAR' when it is
\* Numeric and rule_applied = 3 when it is Categorical.
C20_UncomputedUnderMCARYieldsRuleFiveIfNumeric ==
    (/\ last.op = "calculate_recommendation"
     /\ IsFeature(last.feature)
     /\ ~last.feature.correlations_calculated
     /\ ~last.feature.informative_calculated
     /\ last.dataset_mechanism = Chars_MCAR) =>
        /\ last.result # None
        /\ last.result.rule_applied = IF last.feature.data_type = "N" THEN 5 ELSE 3

C20_Witness ==
    /\ last.op = "calculate_recommendation"
    /\ IsFeature(last.feature)
    /\ ~last.feature.correlations_calculated
    /\ ~last.feature.informative_calculated
    /\ last.feature.data_type = "N"
    /\ last.dataset_mechanism = Chars_MCAR
    /\ last.result.rule_applied = 5
    /\ last.result.recommendation_type = Type_AllValid

\* ----------------------------------------------------------------- C21
\* C21 (as claimed): when none of the rules 1-5 fires for a Feature, the
\* engine returns the rule-4 recommendation type with a tag that marks the
\* result as a fallback: a field beyond recommendation_type, reason and
\* rule_applied, or a rule number other than 4.
C21_FallbackIsTagged ==
    (/\ last.op = "calculate_recommendation"
     /\ IsFeature(last.feature)
     /\ ~SomeRule(last.feature, last.dataset_mechanism)) =>
        /\ last.result # None
        /\ last.result.recommendation_type = Type_MachineLearning
        /\ \/ DOMAIN last.result # PlainRecommendationKeys
           \/ last.result.rule_applied # 4

C23_RecommendAllRunsEngineWhenNeeded ==
    [][ (/\ last'.op = "get_missing_data_recommendations"
         /\ last'.status = 200
         /\ "dataset_mechanism" \in DOMAIN last') =>
          LET before  == IF FEATURE_CACHE = <<>>
                         THEN initialize_feature_cache(FEATURE_CACHE, df, now + 1).cache
                         ELSE FEATURE_CACHE
              after   == FEATURE_CACHE'
              entries == last'.recommendations
          IN  /\ Len(after) = Len(before)
              /\ \A i \in DOMAIN after :
                    /\ (after[i] # before[i]) <=>
                          (before[i].number_missing > 0 /\ ~before[i].recommendation_calculated)
                    /\ after[i].number_missing > 0 =>
                          /\ after[i].recommendation_calculated
                          /\ \E k \in DOMAIN entries :
                                /\ entries[k].feature_name = after[i].name
                                /\ entries[k].recommendation = after[i].recommendation
                    /\ after[i].number_missing = 0 =>
                          \A k \in DOMAIN entries : entries[k].feature_name # after[i].name
      ]_vars

\* a request that computed the recommendation of the record with missing
\* values and passed over the record without, in one store
C23_Witness ==
    /\ last.op = "get_missing_data_recommendations"
    /\ last.status = 200
    /\ "dataset_mechanism" \in DOMAIN last
    /\ Len(FEATURE_CACHE) = 2
    /\ Len(last.recommendations) = 1
    /\ \E i \in DOMAIN FEATURE_CACHE :
          /\ FEATURE_CACHE[i].number_missing = 0
          /\ ~FEATURE_CACHE[i].recommendation_calculated
          /\ FEATURE_CACHE[i].recommendation = None
    /\ \E i \in DOMAIN FEATURE_CACHE :
          /\ FEATURE_CACHE[i].number_missing > 0
          /\ FEATURE_CACHE[i].recommendation_calculated
          /\ last.recommendations[1] =
                [feature_name |-> FEATURE_CACHE[i].name,
                 recommendation |-> FEATURE_CACHE[i].recommendation]

\* ----------------------------------------------------------------- C24
\* C24: initialize_feature_cache on a non-empty dataset whose columns are all
\* skipped for their null or empty name, none failing during the statistics,
\* ends with an empty FEATURE_CACHE and raises nothing; it raises on a
\* non-empty dataset only when at least one column failed.
C24_NameSkipsAreNotFailures ==
    (/\ last.op = "initialize_feature_cache"
     /\ last.d # None
     /\ ~Empty(last.d)) =>
        /\ (\A i \in DOMAIN last.d.columns :
               last.d.columns[i].name = "" /\ ~last.d.columns[i].bad) =>
              (~last.raised /\ FEATURE_CACHE = <<>>)
        /\ last.raised => \E i \in DOMAIN last.d.columns : last.d.columns[i].bad

\* ----------------------------------------------------------------- C25
\* C25 as stated: after a successful initialize_feature_cache FEATURE_CACHE
\* holds exactly one fresh record per column with a valid name.
C25_OneFreshRecordPerNamedColumn ==
    (last.op = "initialize_feature_cache" /\ ~last.raised) =>
        Len(FEATURE_CACHE) =
            Cardinality({i \in DOMAIN last.d.columns : last.d.columns[i].name # ""})

\* C25, amended: after a successful initialize_feature_cache FEATURE_CACHE
\* holds exactly one record per column that has a valid name and whose
\* statistics were computed, keyed by that name, with number_missing the
\* column's count of missing values, percentage_missing the nearest hundredth
\* to 100 * number_missing / rows, the auto-detected type, the three
\* calculated flags false, no correlations and no recommendation; nothing of
\* the previous contents survives.
C25_OneFreshRecordPerProcessedColumn ==
    (last.op = "initialize_feature_cache" /\ ~last.raised) =>
        LET d         == last.d
            processed == {i \in DOMAIN d.columns :
                             d.columns[i].name # "" /\ ~d.columns[i].bad}
            RecordOf(column, f) ==
                /\ f.name = column.name
                /\ f.number_missing = column.missing
                /\ 2 * Abs(f.percentage_missing * d.rows - 10000 * column.missing) <= d.rows
                /\ f.original_dtype = column.dtype
                /\ f.data_type = IF column.dtype \in {"int64", "float64", "int32", "float32"}
                                 THEN "N" ELSE "C"
                /\ ~f.correlations_calculated
                /\ ~f.informative_calculated
                /\ ~f.recommendation_calculated
                /\ f.correlated_features = <<>>
                /\ f.informative_missingness = DefaultInformative
                /\ f.last_thresholds = EmptyDict
                /\ f.recommendation = None
                /\ f.last_updated = now
        IN  /\ Len(FEATURE_CACHE) = Cardinality(processed)
            /\ \A i \in processed :
                  \E k \in DOMAIN FEATURE_CACHE : RecordOf(d.columns[i], FEATURE_CACHE[k])
            /\ \A k \in DOMAIN FEATURE_CACHE :
                  \E i \in processed : RecordOf(d.columns[i], FEATURE_CACHE[k])

\* a successful rebuild over earlier contents, of a dataset with a failing
\* column and a column whose percentage is not a whole number of hundredths
C25_Witness ==
    /\ last.op = "initialize_feature_cache"
    /\ ~last.raised
    /\ last.size_before > 0
    /\ \E i \in DOMAIN last.d.columns : last.d.columns[i].bad
    /\ \E k \in DOMAIN FEATURE_CACHE :
          FEATURE_CACHE[k].percentage_missing * last.d.rows # 10000 * FEATURE_CACHE[k].number_missing

\* ----------------------------------------------------------------- C26
\* C26: get_all_features_from_cache returns a permutation of the records of
\* FEATURE_CACHE in non-increasing order of percentage_missing, records of
\* equal percentage_missing keeping their insertion order, and leaves
\* FEATURE_CACHE as it was.
C26_SortedStablePermutation ==
    [][ (last'.op = "get_all_features_from_cache") =>
          LET result == last'.result
              \* the position in FEATURE_CACHE of the k-th returned record
              pos(k) == CacheIndex(FEATURE_CACHE, result[k].name)
          IN  /\ FEATURE_CACHE' = FEATURE_CACHE
              /\ Len(result) = Len(FEATURE_CACHE)
              /\ \A k \in DOMAIN result :
                    pos(k) # 0 /\ result[k] = FEATURE_CACHE[pos(k)]
              /\ \A j, k \in DOMAIN result : j # k => pos(j) # pos(k)
              /\ \A j, k \in DOMAIN result :
                    j < k =>
                       /\ result[j].percentage_missing >= result[k].percentage_missing
                       /\ result[j].percentage_missing = result[k].percentage_missing =>
                             pos(j) < pos(k)
      ]_vars

\* a call that moves a record forward and keeps two records of equal
\* percentage in their insertion order
C26_Witness ==
    /\ last.op = "get_all_features_from_cache"
    /\ Len(last.result) = 3
    /\ last.result[1] = FEATURE_CACHE[3]
    /\ last.result[2] = FEATURE_CACHE[1]
    /\ last.result[3] = FEATURE_CACHE[2]
    /\ FEATURE_CACHE[1].percentage_missing = FEATURE_CACHE[2].percentage_missing

\* ----------------------------------------------------------------- C27
\* C27: group_recommendations_by_type partitions the features by
\* recommendation type: every feature with a recommendation is in exactly one
\* group, of its recommendation type; no two groups share a type; no group is
\* empty; a feature without a recommendation is in no group.
C27_GroupsPartitionByType ==
    last.op = "group_recommendations_by_type" =>
        LET result == last.result
            Places(feature_name) ==
                { <<g, i>> \in (DOMAIN result) \X (1 .. 3) :
                     i \in DOMAIN result[g].features
                     /\ result[g].features[i] = feature_name }
        IN  /\ \A g \in DOMAIN result : result[g].features # <<>>
            /\ \A g, h \in DOMAIN result :
                  g # h => result[g].recommendation_type # result[h].recommendation_type
            /\ \A k \in DOMAIN last.recommendations :
                  LET item == last.recommendations[k]
                  IN  IF item.recommendation = None
                      THEN Places(item.feature_name) = {}
                      ELSE /\ Cardinality(Places(item.feature_name)) = 1
                           /\ \A p \in Places(item.feature_name) :
                                 result[p[1]].recommendation_type =
                                     item.recommendation.recommendation_type

\* two features of one type around a feature of another type, grouped, next
\* to none without a recommendation
C27_Witness ==
    /\ last.op = "group_recommendations_by_type"
    /\ last.recommendations[1].recommendation # None
    /\ last.recommendations[2].recommendation # None
    /\ last.recommendations[3].recommendation = last.recommendations[1].recommendation
    /\ last.recommendations[2].recommendation # last.recommendations[1].recommendation
    /\ Len(last.result) = 2
    /\ \E g \in DOMAIN last.result : last.result[g].features = <<"a", "c">>

\* ----------------------------------------------------------------- C28
\* C28: the groups returned by group_recommendations_by_type are in ascending
\* order of the rule_applied that the recommendations passed in give for the
\* first feature of each group (999 when it gives none), whatever
\* FEATURE_CACHE holds for these features.
C28_GroupsOrderedByPassedRule ==
    last.op = "group_recommendations_by_type" =>
        LET result == last.result
            Passed(feature_name) ==
                (CHOOSE item \in {last.recommendations[k] : k \in DOMAIN last.recommendations} :
                    item.feature_name = feature_name).recommendation
            Rule(g) == IF "rule_applied" \in DOMAIN Passed(result[g].features[1])
                       THEN Passed(result[g].features[1]).rule_applied ELSE 999
        IN  \A g, h \in DOMAIN result : g < h => Rule(g) <= Rule(h)

C30_ReadersSeeCompleteStore ==
    (last.op = "get_features_table" /\ "thread" \in DOMAIN last) =>
        LET complete == get_all_features_from_cache(routes_initialize_feature_cache(df, now))
        IN  last.features = [k \in DOMAIN complete |-> to_basic_dict(complete[k])]

\* ----------------------------------------------------------------- C31
\* C31: once a request that replaces the dataset has completed, with no other
\* request in flight, the feature store of the feature routes holds no record
\* and no cached correlation derived from the replaced dataset: every record
\* is a column of the dataset now loaded, with that column's count of missing
\* values, and every cached correlation names a column of that dataset.
C31_NothingOfReplacedDatasetSurvives ==
    (last.op = "validate_upload" /\ last.status = 200) =>
        \A i \in DOMAIN routes_FEATURE_CACHE :
            LET self == routes_FEATURE_CACHE[i]
            IN  /\ ColumnIndex(df, self.name) # 0
                /\ self.number_missing = df.columns[ColumnIndex(df, self.name)].missing
                /\ \A k \in DOMAIN self.correlated_features :
                      ColumnIndex(df, self.correlated_features[k].feature_name) # 0

\* ----------------------------------------------------------------- C32
\* C32: immediately after initialize_feature_cache, for every record and
\* every pandas dtype, data_type equals auto_detected_data_type, so
\* is_data_type_manually_set is false and reset_to_auto_detected_type changes
\* nothing.
C32_RebuiltTypeIsAutoDetected ==
    (last.op = "initialize_feature_cache" /\ ~last.raised) =>
        \A i \in DOMAIN FEATURE_CACHE :
            /\ FEATURE_CACHE[i].data_type = auto_detected_data_type(FEATURE_CACHE[i])
            /\ ~is_data_type_manually_set(FEATURE_CACHE[i])
            /\ reset_to_auto_detected_type(FEATURE_CACHE, detached, i, now + 1).cache
                  = FEATURE_CACHE

\* ----------------------------------------------------------------- C33
\* C33: calculate_and_set_recommendation never raises and leaves the record
\* with recommendation_calculated true and a recommendation that is not None:
\* the engine's result when it returns one, otherwise a recommendation of the
\* rule-4 type with rule_applied 4 carrying calculation_failed (the engine
\* returned None) or calculation_error (the engine raised);
\* needs_recommendation_recalculation is false afterwards, and no other
\* field but last_updated has changed.
C33_RecommendationAlwaysStored ==
    last.op = "calculate_and_set_recommendation" =>
        LET self == Self(last.ref)
            result == IF last.engine = "calculate_recommendation"
                      THEN calculate_recommendation(last.before, last.dataset_mechanism)
                      ELSE IF last.engine = "return None" THEN None ELSE Raised
        IN  /\ self.recommendation_calculated
            /\ self.recommendation # None
            /\ ~needs_recommendation_recalculation(self)
            /\ result \notin {None, Raised} => self.recommendation = result
            /\ result \in {None, Raised} =>
                  /\ self.recommendation.recommendation_type = Type_MachineLearning
                  /\ self.recommendation.rule_applied = 4
                  /\ IF result = None
                     THEN "calculation_failed" \in DOMAIN self.recommendation
                          /\ self.recommendation.calculation_failed
                     ELSE "calculation_error" \in DOMAIN self.recommendation
                          /\ self.recommendation.calculation_error
            /\ self = [last.before EXCEPT !.recommendation = self.recommendation,
                                          !.recommendation_calculated = TRUE,
                                          !.last_updated = now]

\* the three outcomes of the engine call have been stored: a stubbed engine
\* that raised, on a record that held the recommendation of an earlier call
C33_Witness ==
    /\ last.op = "calculate_and_set_recommendation"
    /\ last.engine = "raise"
    /\ last.had_recommendation
    /\ last.before.recommendation.rule_applied = 3
    /\ Self(last.ref).recommendation.calculation_error
    /\ Self(last.ref).last_updated > last.before.last_updated

\* ----------------------------------------------------------------- C34
\* C34: after reset_to_auto_detected_type the object's data_type is its
\* auto-detected type and is_data_type_manually_set is false; when the type
\* changes, the store and the object end as after assigning the auto-detected
\* type to data_type (every cached record without correlations, the object
\* without verdict and without recommendation); when it does not change,
\* nothing changes; and a second reset changes nothing.
C34_ResetIsATypeChangeOrNothing ==
    [][last'.op = "reset_to_auto_detected_type" =>
        LET ref    == last'.ref
            before == Deref(FEATURE_CACHE, detached, ref)
            auto   == auto_detected_data_type(before)
            after  == Deref(FEATURE_CACHE', detached', ref)
            setter == data_type_setter(FEATURE_CACHE, detached, ref, auto, now + 1)
            again  == reset_to_auto_detected_type(FEATURE_CACHE', detached', ref, now' + 1)
        IN  /\ after.data_type = auto
            /\ ~is_data_type_manually_set(after)
            /\ IF before.data_type # auto
               THEN /\ FEATURE_CACHE' = setter.cache
                    /\ detached' = setter.det
                    /\ \A i \in DOMAIN FEATURE_CACHE' :
                          /\ ~FEATURE_CACHE'[i].correlations_calculated
                          /\ FEATURE_CACHE'[i].correlated_features = <<>>
                    /\ ~after.informative_calculated
                    /\ after.informative_missingness = DefaultInformative
                    /\ after.recommendation = None
                    /\ ~after.recommendation_calculated
                    /\ after.last_updated = now'
               ELSE UNCHANGED <<FEATURE_CACHE, detached, now>>
            /\ again.cache = FEATURE_CACHE'
            /\ again.det = detached'
            /\ ~again.raised]_vars

\* a reset has changed the type of a cached record that held a verdict, in a
\* store of two records
C34_Witness ==
    /\ last.op = "reset_to_auto_detected_type"
    /\ last.changed
    /\ last.ref >= 1
    /\ Len(FEATURE_CACHE) >= 2
    /\ Self(last.ref).data_type = auto_detected_data_type(Self(last.ref))
    /\ Self(last.ref).last_updated = now
    /\ \E i \in DOMAIN FEATURE_CACHE : i # last.ref /\ FEATURE_CACHE[i].last_updated = now

\* ----------------------------------------------------------------- C35
\* C35: every recommendation returned by calculate_all_recommendations under
\* the dataset mechanism m is what calculate_recommendation returns for the
\* record as it is now and m; a recommendation stored under an earlier
\* mechanism verdict is not returned once the verdict has changed.
C35_ReturnedIsRecomputedUnderCurrentVerdict ==
    (/\ last.op = "get_missing_data_recommendations"
     /\ last.status = 200
     /\ "dataset_mechanism" \in DOMAIN last) =>
        \A k \in DOMAIN last.recommendations :
            \A i \in DOMAIN FEATURE_CACHE :
                FEATURE_CACHE[i].name = last.recommendations[k].feature_name =>
                    last.recommendations[k].recommendation =
                        calculate_recommendation(FEATURE_CACHE[i], last.dataset_mechanism)

\* ----------------------------------------------------------------- C36
\* C36: in every reachable state, every Feature, cached or not, satisfies:
\* correlations_calculated false implies correlated_features empty and
\* last_thresholds empty; informative_calculated false implies
\* informative_missingness = {is_informative: False, p_value: 1.0}, hence
\* is_informative true implies informative_calculated; and
\* recommendation_calculated is true if and only if the stored recommendation
\* is not None.
C36_RecordInvariants ==
    \A ref \in Refs :
        LET self == Self(ref)
        IN  /\ ~self.correlations_calculated =>
                  (self.correlated_features = <<>> /\ self.last_thresholds = EmptyDict)
            /\ ~self.informative_calculated =>
                  self.informative_missingness = DefaultInformative
            /\ self.informative_missingness.is_informative => self.informative_calculated
            /\ self.recommendation_calculated <=> (self.recommendation # None)

\* correlations have been cleared from an object that held a recommendation
\* and keeps its informative verdict
C36_Witness ==
    /\ last.op = "clear_correlations"
    /\ last.had_recommendation
    /\ ~Self(last.ref).correlations_calculated
    /\ Self(last.ref).correlated_features = <<>>
    /\ Self(last.ref).informative_calculated
    /\ Self(last.ref).informative_missingness.is_informative
    /\ ~Self(last.ref).recommendation_calculated

\* ----------------------------------------------------------------- C37
\* C37: for every record of the feature store of the feature routes whose
\* correlations_calculated is true, each cached entry whose partner is
\* registered in the store has the correlation_type that the dispatch assigns
\* to the current data_type of the record and of the partner ("r" for two
\* numerical features, "V" for two categorical ones, "eta" for a mixed
\* pair): no cached correlation survives a data_type change of a feature.
C37_CachedKindsMatchCurrentTypes ==
    \A i \in DOMAIN routes_FEATURE_CACHE :
        LET self == routes_FEATURE_CACHE[i]
        IN  self.correlations_calculated =>
                \A k \in DOMAIN self.correlated_features :
                    \A j \in DOMAIN routes_FEATURE_CACHE :
                        routes_FEATURE_CACHE[j].name
                                = self.correlated_features[k].feature_name =>
                            self.correlated_features[k].correlation_type =
                                IF self.data_type = "N"
                                   /\ routes_FEATURE_CACHE[j].data_type = "N"
                                THEN "r"
                                ELSE IF self.data_type = "C"
                                        /\ routes_FEATURE_CACHE[j].data_type = "C"
                                THEN "V"
                                ELSE "eta"

\* ----------------------------------------------------------------- C38
\* C38: a feature-details request whose thresholds equal the record's
\* last_thresholds and whose informative verdict is already computed changes
\* no field of the record; a request that recomputes the correlations or the
\* verdict leaves correlations_calculated true, last_thresholds equal to the
\* requested thresholds, informative_calculated true, and no recommendation
\* held for the feature.
C38_DetailsRequestEffect ==
    [][ (/\ last'.op = "get_feature_details"
         /\ last'.status = 200) =>
          LET \* the record the request finds, created by it when the store
              \* is empty, and the record it leaves
              k         == CacheIndex(routes_FEATURE_CACHE', last'.feature_name)
              Requested == routes_LazyInit(routes_FEATURE_CACHE, df, now + 1)[k]
              Served    == routes_FEATURE_CACHE'[k]
              quiet     == /\ Requested.correlations_calculated
                           /\ Requested.last_thresholds = last'.thresholds
                           /\ Requested.informative_calculated
          IN  /\ quiet => Served = Requested
              /\ ~quiet =>
                    /\ Served.correlations_calculated
                    /\ Served.last_thresholds = last'.thresholds
                    /\ Served.informative_calculated
                    /\ \A i \in DOMAIN FEATURE_CACHE' :
                          FEATURE_CACHE'[i].name = last'.feature_name =>
                              /\ FEATURE_CACHE'[i].recommendation = None
                              /\ ~FEATURE_CACHE'[i].recommendation_calculated
      ]_vars

\* ----------------------------------------------------------------- C39
\* C39: whenever calculate_recommendation returns rule 2 ("Remove Features")
\* for a feature, at least one entry of the feature's cached correlation list
\* names a partner with complete data (number_missing = 0).  The list is the
\* one calculate_feature_correlations_with_thresholds returns for the feature
\* on the dataset the store was built from, stored in the feature's record.
C39_RuleTwoHasCompletePartner ==
    (/\ last.op = "calculate_feature_correlations_with_thresholds"
     /\ CacheIndex(FEATURE_CACHE, last.feature_name) # 0
     /\ Len(FEATURE_CACHE) = Len(last.d.columns)
     /\ \A j \in DOMAIN last.d.columns :
           /\ CacheIndex(FEATURE_CACHE, last.d.columns[j].name) # 0
           /\ FEATURE_CACHE[CacheIndex(FEATURE_CACHE, last.d.columns[j].name)].number_missing
                 = last.d.columns[j].missing) =>
        LET self == set_correlated_features_with_thresholds(
                        FEATURE_CACHE[CacheIndex(FEATURE_CACHE, last.feature_name)],
                        last.result,
                        Thresholds(last.pearson_threshold, last.cramer_v_threshold,
                                   last.eta_threshold),
                        now + 1)
        IN  \A dataset_mechanism \in MechanismInputs :
                calculate_recommendation(self, dataset_mechanism).rule_applied = 2 =>
                    \E k \in DOMAIN self.correlated_features :
                        \E i \in DOMAIN FEATURE_CACHE :
                            /\ FEATURE_CACHE[i].name = self.correlated_features[k].feature_name
                            /\ FEATURE_CACHE[i].number_missing = 0

====
